---------------------------- MODULE Spec2Model ----------------------------
(***************************************************************************)
(* A model of the Israel news module: the rate-limited scraper             *)
(* (ingestor/scraper.py), the article processor (processor/summarizer.py)  *)
(* and the pipeline orchestrator (pipeline.py).                            *)
(*                                                                         *)
(* Time is an integer count of clock ticks.  datetime.now() and            *)
(* time.time() read the same wall clock, `clock`; tick 0 is the epoch      *)
(* (the value last_request_time starts from) and local midnights are the   *)
(* multiples of DayTicks.                                                  *)
(***************************************************************************)
EXTENDS Integers, Sequences, FiniteSets, TLC

VARIABLES
    clock,                  \* the wall clock read by datetime.now() / time.time()
    daily_request_count,    \* NewsScraper.daily_request_count
    daily_reset_time,       \* NewsScraper.daily_reset_time
    last_request_time,      \* NewsScraper.last_request_time
    returns,                \* history: return times of the last 24 hours
    last_return,            \* history: when the latest _rate_limit returned
    call,                   \* history: the path the latest _rate_limit took
    articles,               \* the articles one sector accumulated from its fetches
    unique_articles,        \* the deduplication's result
    deduped_again,          \* the deduplication of unique_articles
    dedup_pc,               \* "fetched", "deduped" or "again"
    title,                  \* categorize_article's argument title
    description,            \* categorize_article's argument description
    category,               \* categorize_article's result
    cat_pc,                 \* "called" or "returned"
    batch,                  \* process_batch's argument articles
    processed,              \* process_batch's list processed
    batch_i,                \* the position of the next article of the batch
    summary_log,            \* history: what summarize_article returned, by turn
    ingestor,               \* NewsPipeline.ingestor is not None
    processor,              \* NewsPipeline.processor is not None
    uploader,               \* NewsPipeline.uploader is not None
    db,                     \* NewsPipeline.db is not None
    categories,             \* run_full_pipeline's argument categories
    save,                   \* run_full_pipeline's argument save
    pipe_pc,                \* the stage run_full_pipeline is in, or "done"
    loop_i,                 \* the position of the stage's loop
    raw_articles,           \* run_full_pipeline's raw_articles, in dict order
    all_processed,          \* run_full_pipeline's all_processed
    final_articles,         \* run_full_pipeline's final_articles
    saved,                  \* save_to_database's saved
    results,                \* run_full_pipeline's results
    stage_log,              \* history: the stage methods in the order called
    step_log,               \* history: the steps run_full_pipeline announced
    save_log,               \* history: what each turn of save_to_database met
    calls,                  \* history: the collaborator calls made, by stage,
                            \* and the failures the program caught
    feeds_config,           \* NewsScraper.feeds_config['sectors']: the search
                            \* queries of each configured sector
    ing_op,                 \* the fetch operation called and its argument
    plan,                   \* the fetches the operation's loops make, in order
    plan_i,                 \* the position of the next fetch of the plan
    all_articles,           \* the articles accumulated, by sector
    fetch_log,              \* history: the fetches made and what they met
    ing_pc,                 \* "fetching", "returned" or "raised"
    ing_result,             \* what the operation returned
    connection,             \* PostgreSQLConnection.connection: "none", "open"
                            \* (in a transaction), "failed" (its transaction
                            \* aborted by a failed statement) or "closed"
    table,                  \* the rows of articles, as the connection sees them
    committed,              \* the rows of articles that are committed
    n_inserts,              \* history: the insert_article calls made
    last_insert,            \* history: the latest call's argument and result
    provider,               \* ImageUploader.provider: "s3", "cloudinary", "local"
    fallback_setting,       \* FALLBACK_IMAGE_URL of the environment: "unset",
                            \* "custom" or "empty"
    url_cache,              \* ImageUploader.url_cache
    image_articles,         \* the list given to process_article_images
    images,                 \* that list, as the loop has changed it
    image_i,                \* the loop's position in it
    image_pc,               \* "looping" or "returned"
    n_uploads,              \* history: the upload_image calls made directly
    last_upload,            \* history: the latest upload_image call
    rl_pc,                  \* each thread's position in _rate_limit
    rl_local,               \* each thread's local values: now, current_time,
                            \* the length and the end of its sleep, the
                            \* time and the count it read to store them
    rl_calls,               \* history: the calls each thread has finished
    rl_incs,                \* history: the increments made since the count
                            \* was last set to 0
    fetch_pc,               \* where the scraper's current fetch call stands
    fetch_kind,             \* the fetch operation being called
    fetch_ret,              \* what the last fetch call met
    scraped,                \* the article list the scraper's caller holds
    formatted,              \* the last result of to_json_format
    n_fetches,              \* history: the fetch calls begun
    call_acqs,              \* history: the _rate_limit calls the current
                            \* fetch call has made
    since_request           \* history: the _rate_limit calls made since
                            \* the last outbound request

rateVars == <<clock, daily_request_count, daily_reset_time, last_request_time,
              returns, last_return, call>>

dedupVars == <<articles, unique_articles, deduped_again, dedup_pc>>

catVars == <<title, description, category, cat_pc>>

procVars == <<batch, processed, batch_i, summary_log>>

pipeVars == <<ingestor, processor, uploader, db, categories, save, pipe_pc,
              loop_i, raw_articles, all_processed, final_articles, saved,
              results, stage_log, step_log, save_log, calls>>

ingVars == <<feeds_config, ing_op, plan, plan_i, all_articles, fetch_log,
             ing_pc, ing_result>>

dbVars == <<connection, table, committed, n_inserts, last_insert>>

imageVars == <<provider, fallback_setting, url_cache, image_articles, images,
               image_i, image_pc, n_uploads, last_upload>>

concVars == <<rl_pc, rl_local, rl_calls, rl_incs>>

fetchVars == <<fetch_pc, fetch_kind, fetch_ret, scraped, formatted, n_fetches,
               call_acqs, since_request>>

vars == <<rateVars, dedupVars, catVars, procVars, pipeVars, ingVars, dbVars,
          imageVars, concVars, fetchVars>>

\* What the actions of one part leave unchanged: the other parts.
notRate == <<dedupVars, catVars, procVars, pipeVars, ingVars,
             dbVars, imageVars, concVars, fetchVars>>
notDedup == <<rateVars, catVars, procVars, pipeVars, ingVars,
              dbVars, imageVars, concVars, fetchVars>>
notCat == <<rateVars, dedupVars, procVars, pipeVars, ingVars,
            dbVars, imageVars, concVars, fetchVars>>
notProc == <<rateVars, dedupVars, catVars, pipeVars, ingVars,
             dbVars, imageVars, concVars, fetchVars>>
notPipe == <<rateVars, dedupVars, catVars, procVars, ingVars,
             dbVars, imageVars, concVars, fetchVars>>
notIng == <<rateVars, dedupVars, catVars, procVars, pipeVars,
            dbVars, imageVars, concVars, fetchVars>>
notDb == <<rateVars, dedupVars, catVars, procVars, pipeVars, ingVars,
          imageVars, concVars, fetchVars>>
notImage == <<rateVars, dedupVars, catVars, procVars, pipeVars, ingVars,
             dbVars, concVars, fetchVars>>
\* The threads' steps work on the rate-limit state.
notConc == <<dedupVars, catVars, procVars, pipeVars, ingVars, dbVars,
            imageVars, fetchVars>>
\* The fetch operations' steps work on the rate-limit state too.
notFetch == <<dedupVars, catVars, procVars, pipeVars, ingVars, dbVars,
              imageVars, concVars>>

(***************************************************************************)
(* Bounds of the model.                                                    *)
(***************************************************************************)
\* Seconds of the scaled day (the code's day has 86400).
SecondsPerDay == 6
\* The scraper's max_daily_requests (scraper.py:53 sets 100), scaled.
max_daily_requests == 3
\* The last clock tick explored.
MaxClock == 36
\* Ticks a time.sleep may last beyond what was asked for.
MaxOversleep == 1
\* Articles one sector accumulates before it is deduplicated.
MaxArticles == 3
\* Words of a title given to categorize_article.
MaxWords == 2
\* Articles of a batch given to process_batch.
MaxBatch == 2
\* Search queries configured for a sector.
MaxQueries == 3
\* insert_article calls on one connection.
MaxInserts == 3
\* Articles in the list given to process_article_images.
MaxImages == 2
\* upload_image calls made outside process_article_images.
MaxUploads == 2
\* Threads that call _rate_limit on one NewsScraper.
MaxThreads == 2
\* _rate_limit calls of one thread.
MaxThreadCalls == 2
\* Clock ticks the threads' calls are followed for.
MaxConcTicks == 6
\* Fetch calls made on one scraper.
MaxFetches == 4

(***************************************************************************)
(* Each specification below exercises one part of the program and leaves   *)
(* the other parts' variables at these values.                             *)
(***************************************************************************)
IdleRate ==
    /\ clock = 0
    /\ daily_request_count = 0
    /\ daily_reset_time = 0
    /\ last_request_time = 0
    /\ returns = <<>>
    /\ last_return = -1
    /\ call = [window_reset |-> FALSE, quota_wait |-> FALSE, delay_sleep |-> -1]

IdleDedup ==
    /\ articles = <<>>
    /\ unique_articles = <<>>
    /\ deduped_again = <<>>
    /\ dedup_pc = "idle"

IdleCat ==
    /\ title = <<>>
    /\ description = <<>>
    /\ category = ""
    /\ cat_pc = "idle"

IdleProc ==
    /\ batch = <<>>
    /\ processed = <<>>
    /\ batch_i = 0
    /\ summary_log = <<>>

IdlePipe ==
    /\ ingestor = FALSE
    /\ processor = FALSE
    /\ uploader = FALSE
    /\ db = FALSE
    /\ categories = <<>>
    /\ save = FALSE
    /\ pipe_pc = "idle"
    /\ loop_i = 0
    /\ raw_articles = <<>>
    /\ all_processed = <<>>
    /\ final_articles = <<>>
    /\ saved = 0
    /\ results = <<>>
    /\ stage_log = <<>>
    /\ step_log = <<>>
    /\ save_log = <<>>
    /\ calls = <<>>

IdleIng ==
    /\ feeds_config = <<>>
    /\ ing_op = <<>>
    /\ plan = <<>>
    /\ plan_i = 0
    /\ all_articles = <<>>
    /\ fetch_log = <<>>
    /\ ing_pc = "idle"
    /\ ing_result = <<>>

IdleDb ==
    /\ connection = "idle"
    /\ table = {}
    /\ committed = {}
    /\ n_inserts = 0
    /\ last_insert = <<>>

IdleImage ==
    /\ provider = "idle"
    /\ fallback_setting = "unset"
    /\ url_cache = <<>>
    /\ image_articles = <<>>
    /\ images = <<>>
    /\ image_i = 0
    /\ image_pc = "idle"
    /\ n_uploads = 0
    /\ last_upload = <<>>

IdleConc ==
    /\ rl_pc = <<>>
    /\ rl_local = <<>>
    /\ rl_calls = <<>>
    /\ rl_incs = 0

IdleFetch ==
    /\ fetch_pc = "none"
    /\ fetch_kind = ""
    /\ fetch_ret = <<>>
    /\ scraped = <<>>
    /\ formatted = <<>>
    /\ n_fetches = 0
    /\ call_acqs = 0
    /\ since_request = 0

(***************************************************************************)
(* NewsScraper.__init__: the rate-limit state.                             *)
(***************************************************************************)
\* self.request_delay = 1.0: one second, which is two clock ticks
request_delay == 2

TicksPerSecond == request_delay
DayTicks == SecondsPerDay * TicksPerSecond

\* The scraper is constructed at any time of the second day after the epoch.
StartTimes == DayTicks .. (2 * DayTicks - 1)

NoCall == [window_reset |-> FALSE, quota_wait |-> FALSE, delay_sleep |-> -1]

\* Mutant of WindowElapsed: exactly 24 hours are not enough.
WindowElapsed_Late(now, reset) == now - reset > DayTicks

\* (now - self.daily_reset_time).days >= 1
WindowElapsed(now, reset) == now - reset >= DayTicks

\* (datetime.now().replace(hour=0, minute=0, second=0) + timedelta(days=1)
\*  - now).total_seconds(): replace() keeps the sub-second part of the time.
QuotaWaitTime(now) ==
    LET tod      == now % DayTicks
        midnight == now - tod
        subsec   == tod % TicksPerSecond
    IN  (midnight + subsec + DayTicks) - now

\* Mutant of DelaySleep: the delay is measured one tick short.
DelaySleep_Short(current_time, last) ==
    IF current_time - last < request_delay - 1
    THEN request_delay - 1 - (current_time - last)
    ELSE 0

\* time_since_last = current_time - self.last_request_time;
\* the argument of time.sleep, 0 when the code does not sleep
DelaySleep(current_time, last) ==
    IF current_time - last < request_delay
    THEN request_delay - (current_time - last)
    ELSE 0

\* Mutant of CountAfter: the call is counted twice.
CountAfter_Twice(count) == count + 2

\* self.daily_request_count += 1
CountAfter(count) == count + 1

\* The acquisitions of `hist` that returned within the 24 hours before `t`.
RECURSIVE Within24h(_, _)
Within24h(hist, t) ==
    IF hist = <<>> THEN <<>>
    ELSE IF t - Head(hist) >= DayTicks THEN Within24h(Tail(hist), t)
    ELSE hist

InitRate ==
    /\ IdleFetch
    /\ IdleConc
    /\ IdlePipe
    /\ IdleIng
    /\ IdleDb
    /\ IdleImage
    /\ IdleProc
    /\ IdleDedup
    /\ IdleCat
    /\ clock \in StartTimes
    /\ daily_request_count = 0
    /\ daily_reset_time = clock
    /\ last_request_time = 0
    /\ returns = <<>>
    /\ last_return = -1
    /\ call = NoCall

\* NewsScraper._rate_limit, called at `clock`; over1 and over2 are the ticks
\* the two sleeps overshoot by.
RateLimitCall(over1, over2) ==
    LET now     == clock
        elapsed == WindowElapsed(now, daily_reset_time)
        c1      == IF elapsed THEN 0 ELSE daily_request_count
        r1      == IF elapsed THEN now ELSE daily_reset_time
        quota   == c1 >= max_daily_requests
        t1      == IF quota THEN now + QuotaWaitTime(now) + over1 ELSE now
        c2      == IF quota THEN 0 ELSE c1
        r2      == IF quota THEN t1 ELSE r1
        sl      == DelaySleep(t1, last_request_time)
        t2      == IF sl > 0 THEN t1 + sl + over2 ELSE t1
    IN  /\ (~quota) => over1 = 0
        /\ (sl <= 0) => over2 = 0
        /\ t2 <= MaxClock
        /\ clock' = t2
        /\ last_request_time' = t2
        /\ daily_request_count' = CountAfter(c2)
        /\ daily_reset_time' = r2
        /\ returns' = Within24h(Append(returns, t2), t2)
        /\ last_return' = t2
        /\ call' = [window_reset |-> elapsed, quota_wait |-> quota,
                    delay_sleep |-> sl]

\* A call of _rate_limit on its own.
RateLimitEffect(over1, over2) ==
    /\ RateLimitCall(over1, over2)
    /\ UNCHANGED notRate

RateLimit ==
    \E over1 \in 0 .. MaxOversleep, over2 \in 0 .. MaxOversleep :
        RateLimitEffect(over1, over2)

\* Time passes between two calls.
Tick ==
    /\ clock < MaxClock
    /\ clock' = clock + 1
    /\ returns' = Within24h(returns, clock + 1)
    /\ UNCHANGED <<daily_request_count, daily_reset_time, last_request_time,
                   last_return, call>>
    /\ UNCHANGED notRate

NextRate == Tick \/ RateLimit

SpecRate == InitRate /\ [][NextRate]_vars

(***************************************************************************)
(* NewsScraper._rate_limit called by several threads on one NewsScraper.   *)
(* The method takes no lock: its statements are the steps, a thread may    *)
(* be preempted between any two, and time.sleep lets the others run.       *)
(***************************************************************************)
Threads == 1 .. MaxThreads

NoLocal == [now |-> 0, wake |-> 0, count |-> 0, current_time |-> 0,
            sleep |-> 0, stamp |-> 0]

\* The thread t goes to `pc`.
Goto(t, pc) == rl_pc' = [rl_pc EXCEPT ![t] = pc]

\* What no step but the last of a call changes.
InCall == UNCHANGED <<returns, last_return, call, rl_calls>>

\* The threads start late on the second day, a second and a half before
\* midnight.
ConcStart == 2 * DayTicks - 3

InitConc ==
    /\ IdleFetch
    /\ IdleDedup
    /\ IdleCat
    /\ IdleProc
    /\ IdlePipe
    /\ IdleIng
    /\ IdleDb
    /\ IdleImage
    /\ clock = ConcStart
    /\ daily_request_count = 0
    /\ daily_reset_time \in {ConcStart, ConcStart - DayTicks + 1}
    /\ last_request_time = 0
    /\ returns = <<>>
    /\ last_return = -1
    /\ call = NoCall
    /\ rl_pc = [t \in Threads |-> "idle"]
    /\ rl_local = [t \in Threads |-> NoLocal]
    /\ rl_calls = [t \in Threads |-> 0]
    /\ rl_incs = 0

\* now = datetime.now()
ReadNow ==
    \E t \in Threads :
        /\ rl_pc[t] = "idle"
        /\ rl_calls[t] < MaxThreadCalls
        /\ rl_local' = [rl_local EXCEPT ![t] = [NoLocal EXCEPT !.now = clock]]
        /\ Goto(t, "window_check")
        /\ UNCHANGED <<clock, daily_request_count, daily_reset_time,
                       last_request_time, rl_incs>>
        /\ InCall
        /\ UNCHANGED notConc

\* if (now - self.daily_reset_time).days >= 1:
WindowCheck ==
    \E t \in Threads :
        /\ rl_pc[t] = "window_check"
        /\ Goto(t, IF WindowElapsed(rl_local[t].now, daily_reset_time)
                   THEN "reset_count" ELSE "quota_check")
        /\ UNCHANGED <<clock, daily_request_count, daily_reset_time,
                       last_request_time, rl_local, rl_incs>>
        /\ InCall
        /\ UNCHANGED notConc

\* self.daily_request_count = 0 (of the window's reset and after the quota
\* wait)
ResetCount ==
    \E t \in Threads :
        /\ rl_pc[t] \in {"reset_count", "quota_reset_count"}
        /\ daily_request_count' = 0
        /\ rl_incs' = 0
        /\ Goto(t, IF rl_pc[t] = "reset_count" THEN "reset_time"
                   ELSE "quota_reset_time")
        /\ UNCHANGED <<clock, daily_reset_time, last_request_time, rl_local>>
        /\ InCall
        /\ UNCHANGED notConc

\* self.daily_reset_time = datetime.now() after the quota wait: the clock
\* is read ...
ReadResetTime ==
    \E t \in Threads :
        /\ rl_pc[t] = "quota_reset_time"
        /\ rl_local' = [rl_local EXCEPT ![t].stamp = clock]
        /\ Goto(t, "quota_store_time")
        /\ UNCHANGED <<clock, daily_request_count, daily_reset_time,
                       last_request_time, rl_incs>>
        /\ InCall
        /\ UNCHANGED notConc

\* self.daily_reset_time = now, and the store of the time read after the
\* quota wait
ResetTime ==
    \E t \in Threads :
        /\ rl_pc[t] \in {"reset_time", "quota_store_time"}
        /\ daily_reset_time' = IF rl_pc[t] = "reset_time" THEN rl_local[t].now
                               ELSE rl_local[t].stamp
        /\ Goto(t, IF rl_pc[t] = "reset_time" THEN "quota_check"
                   ELSE "delay_check")
        /\ UNCHANGED <<clock, daily_request_count, last_request_time,
                       rl_local, rl_incs>>
        /\ InCall
        /\ UNCHANGED notConc

\* if self.daily_request_count >= self.max_daily_requests:
QuotaCheck ==
    \E t \in Threads :
        /\ rl_pc[t] = "quota_check"
        /\ Goto(t, IF daily_request_count >= max_daily_requests
                   THEN "quota_wait_time" ELSE "delay_check")
        /\ UNCHANGED <<clock, daily_request_count, daily_reset_time,
                       last_request_time, rl_local, rl_incs>>
        /\ InCall
        /\ UNCHANGED notConc

\* wait_time = (datetime.now().replace(...) + timedelta(days=1)
\*              - now).total_seconds()
ReadWaitTime ==
    \E t \in Threads :
        /\ rl_pc[t] = "quota_wait_time"
        /\ rl_local' = [rl_local EXCEPT ![t].sleep =
                           QuotaWaitTime(clock) + (clock - rl_local[t].now)]
        /\ Goto(t, "quota_begin")
        /\ UNCHANGED <<clock, daily_request_count, daily_reset_time,
                       last_request_time, rl_incs>>
        /\ InCall
        /\ UNCHANGED notConc

\* time.sleep returns, at the time the sleep ends or later
Wake ==
    \E t \in Threads :
        /\ rl_pc[t] \in {"quota_sleep", "delay_sleep"}
        /\ clock >= rl_local[t].wake
        /\ Goto(t, IF rl_pc[t] = "quota_sleep" THEN "quota_reset_count"
                   ELSE "stamp")
        /\ UNCHANGED <<clock, daily_request_count, daily_reset_time,
                       last_request_time, rl_local, rl_incs>>
        /\ InCall
        /\ UNCHANGED notConc

\* current_time = time.time()
ReadCurrentTime ==
    \E t \in Threads :
        /\ rl_pc[t] = "delay_check"
        /\ rl_local' = [rl_local EXCEPT ![t].current_time = clock]
        /\ Goto(t, "since_last")
        /\ UNCHANGED <<clock, daily_request_count, daily_reset_time,
                       last_request_time, rl_incs>>
        /\ InCall
        /\ UNCHANGED notConc

\* time_since_last = current_time - self.last_request_time;
\* if time_since_last < self.request_delay:
DelayCheck ==
    \E t \in Threads :
        /\ rl_pc[t] = "since_last"
        /\ LET sl == DelaySleep(rl_local[t].current_time, last_request_time)
           IN  /\ rl_local' = [rl_local EXCEPT ![t].sleep = sl]
               /\ Goto(t, IF sl > 0 THEN "delay_begin" ELSE "stamp")
        /\ UNCHANGED <<clock, daily_request_count, daily_reset_time,
                       last_request_time, rl_incs>>
        /\ InCall
        /\ UNCHANGED notConc

\* time.sleep(wait_time) and time.sleep(self.request_delay -
\* time_since_last) begin
BeginSleep ==
    \E t \in Threads :
        /\ rl_pc[t] \in {"quota_begin", "delay_begin"}
        /\ rl_local' = [rl_local EXCEPT ![t].wake = clock + rl_local[t].sleep]
        /\ Goto(t, IF rl_pc[t] = "quota_begin" THEN "quota_sleep"
                   ELSE "delay_sleep")
        /\ UNCHANGED <<clock, daily_request_count, daily_reset_time,
                       last_request_time, rl_incs>>
        /\ InCall
        /\ UNCHANGED notConc

\* self.last_request_time = time.time(): the clock is read ...
ReadStampTime ==
    \E t \in Threads :
        /\ rl_pc[t] = "stamp"
        /\ rl_local' = [rl_local EXCEPT ![t].stamp = clock]
        /\ Goto(t, "stamp_store")
        /\ UNCHANGED <<clock, daily_request_count, daily_reset_time,
                       last_request_time, rl_incs>>
        /\ InCall
        /\ UNCHANGED notConc

\* ... and the time read is stored.
Stamp ==
    \E t \in Threads :
        /\ rl_pc[t] = "stamp_store"
        /\ last_request_time' = rl_local[t].stamp
        /\ Goto(t, "read_count")
        /\ UNCHANGED <<clock, daily_request_count, daily_reset_time,
                       rl_local, rl_incs>>
        /\ InCall
        /\ UNCHANGED notConc

\* self.daily_request_count += 1: the count is read ...
ReadCount ==
    \E t \in Threads :
        /\ rl_pc[t] = "read_count"
        /\ rl_local' = [rl_local EXCEPT ![t].count = daily_request_count]
        /\ Goto(t, "write_count")
        /\ UNCHANGED <<clock, daily_request_count, daily_reset_time,
                       last_request_time, rl_incs>>
        /\ InCall
        /\ UNCHANGED notConc

\* ... and the count read, plus 1, is written; the call returns.
WriteCount ==
    \E t \in Threads :
        /\ rl_pc[t] = "write_count"
        /\ daily_request_count' = CountAfter(rl_local[t].count)
        /\ rl_incs' = rl_incs + 1
        /\ returns' = Within24h(Append(returns, clock), clock)
        /\ last_return' = clock
        /\ rl_calls' = [rl_calls EXCEPT ![t] = @ + 1]
        /\ rl_local' = [rl_local EXCEPT ![t] = NoLocal]
        /\ Goto(t, "idle")
        /\ UNCHANGED <<clock, daily_reset_time, last_request_time, call>>
        /\ UNCHANGED notConc

\* Time passes while a thread sleeps or between the calls; the statements
\* of _rate_limit take no time of the clock.
ConcTick ==
    /\ \/ \E t \in Threads : rl_pc[t] \in {"quota_sleep", "delay_sleep"}
       \/ \A t \in Threads : rl_pc[t] = "idle"
    /\ clock < ConcStart + MaxConcTicks
    /\ Tick

NextConc ==
    \/ ConcTick
    \/ ReadNow
    \/ WindowCheck
    \/ ResetCount
    \/ ResetTime
    \/ ReadResetTime
    \/ QuotaCheck
    \/ ReadWaitTime
    \/ Wake
    \/ ReadCurrentTime
    \/ DelayCheck
    \/ BeginSleep
    \/ ReadStampTime
    \/ Stamp
    \/ ReadCount
    \/ WriteCount

SpecConc == InitConc /\ [][NextConc]_vars

(***************************************************************************)
(* Deduplication: NewsScraper.fetch_all_sectors (per sector) and           *)
(* NewsScraper.fetch_by_category.                                          *)
(***************************************************************************)
\* The values of an article's fields; "" is the empty (or absent) value.
Urls == {"", "u1", "u2"}
ExternalIds == {"", "g1"}
Titles == {"t1", "t2"}

RawArticles == [url : Urls, external_id : ExternalIds, title : Titles]

RECURSIVE ListsUpTo(_, _)
ListsUpTo(S, n) ==
    IF n = 0 THEN {<<>>}
    ELSE LET shorter == ListsUpTo(S, n - 1)
         IN  shorter \cup {Append(l, x) : l \in shorter, x \in S}

Range(seq) == {seq[i] : i \in 1 .. Len(seq)}

\* url = article.get('url', '')
UrlOf(article) == article.url

\* if url and url not in seen_urls:
IsNewUrl(url, seen_urls) == url # "" /\ url \notin seen_urls

\* Mutant of Keep: the article is inserted at the front.
Keep_AtFront(unique, article) == <<article>> \o unique

\* unique_articles.append(article)
Keep(unique, article) == Append(unique, article)

\* The loop over a sector's articles, from the state (seen_urls, unique).
RECURSIVE DedupLoop(_, _, _)
DedupLoop(list, seen_urls, unique) ==
    IF list = <<>> THEN unique
    ELSE LET article == Head(list)
             url     == UrlOf(article)
         IN  IF IsNewUrl(url, seen_urls)
             THEN DedupLoop(Tail(list), seen_urls \cup {url},
                            Keep(unique, article))
             ELSE DedupLoop(Tail(list), seen_urls, unique)

\* seen_urls = set(); unique_articles = []; for article in ...
Deduplicate(list) == DedupLoop(list, {}, <<>>)

InitDedup ==
    /\ IdleFetch
    /\ IdleConc
    /\ IdlePipe
    /\ IdleIng
    /\ IdleDb
    /\ IdleImage
    /\ IdleProc
    /\ IdleRate
    /\ IdleCat
    /\ articles \in ListsUpTo(RawArticles, MaxArticles)
    /\ unique_articles = <<>>
    /\ deduped_again = <<>>
    /\ dedup_pc = "fetched"

\* The deduplication step of a fetch.
DedupStep ==
    /\ dedup_pc = "fetched"
    /\ unique_articles' = Deduplicate(articles)
    /\ dedup_pc' = "deduped"
    /\ UNCHANGED <<articles, deduped_again>>
    /\ UNCHANGED notDedup

\* The deduplication step applied to its own result.
DedupAgain ==
    /\ dedup_pc = "deduped"
    /\ deduped_again' = Deduplicate(unique_articles)
    /\ dedup_pc' = "again"
    /\ UNCHANGED <<articles, unique_articles>>
    /\ UNCHANGED notDedup

NextDedup == DedupStep \/ DedupAgain

SpecDedup == InitDedup /\ [][NextDedup]_vars

(***************************************************************************)
(* Categorization: NewsProcessor.categorize_article.                       *)
(* A text is a sequence of one-character strings.                          *)
(***************************************************************************)
\* Python's None, as an argument that is a text otherwise.
NoneValue == <<"<None>">>

\* str.lower() on the letters the texts are made of
LowerChar(c) ==
    CASE c = "A" -> "a" [] c = "I" -> "i" [] c = "K" -> "k" [] c = "N" -> "n"
      [] c = "T" -> "t" [] OTHER -> c

LowerText(text) == [i \in 1 .. Len(text) |-> LowerChar(text[i])]

\* f"{title}": None is formatted as the text None
Format(value) == IF value = NoneValue THEN <<"N", "o", "n", "e">> ELSE value

\* description or ''
OrEmpty(value) == IF value = NoneValue THEN <<>> ELSE value

\* keyword in text
Contains(text, keyword) ==
    \E i \in 1 .. (Len(text) - Len(keyword) + 1) :
        SubSeq(text, i, i + Len(keyword) - 1) = keyword

\* self.sector_keywords, in the order the dict is written in
sector_keywords ==
   <<
      [sector |-> "farming",
       keywords |-> <<<<"a", "g", "r", "i", "c", "u", "l", "t", "u", "r", "e">>,
                     <<"f", "a", "r", "m", "i", "n", "g">>,
                     <<"f", "a", "r", "m", "e", "r", "s">>,
                     <<"c", "r", "o", "p", "s">>,
                     <<"l", "i", "v", "e", "s", "t", "o", "c", "k">>,
                     <<"a", "g", "t", "e", "c", "h">>,
                     <<"a", "g", "r", "i", "c", "u", "l", "t", "u", "r", "a", "l">>>>],
      [sector |-> "tech",
       keywords |-> <<<<"t", "e", "c", "h", "n", "o", "l", "o", "g", "y">>,
                     <<"t", "e", "c", "h">>,
                     <<"s", "t", "a", "r", "t", "u", "p">>,
                     <<"i", "n", "n", "o", "v", "a", "t", "i", "o", "n">>,
                     <<"A", "I">>,
                     <<"c", "y", "b", "e", "r", "s", "e", "c", "u", "r", "i", "t", "y">>,
                     <<"s", "o", "f", "t", "w", "a", "r", "e">>,
                     <<"d", "i", "g", "i", "t", "a", "l">>>>],
      [sector |-> "politics",
       keywords |-> <<<<"p", "o", "l", "i", "t", "i", "c", "s">>,
                     <<"g", "o", "v", "e", "r", "n", "m", "e", "n", "t">>,
                     <<"K", "n", "e", "s", "s", "e", "t">>,
                     <<"e", "l", "e", "c", "t", "i", "o", "n">>,
                     <<"p", "o", "l", "i", "c", "y">>,
                     <<"m", "i", "n", "i", "s", "t", "e", "r">>,
                     <<"p", "a", "r", "l", "i", "a", "m", "e", "n", "t">>>>],
      [sector |-> "hospitality",
       keywords |-> <<<<"h", "o", "t", "e", "l">>,
                     <<"t", "o", "u", "r", "i", "s", "m">>,
                     <<"r", "e", "s", "t", "a", "u", "r", "a", "n", "t">>,
                     <<"h", "o", "s", "p", "i", "t", "a", "l", "i", "t", "y">>,
                     <<"t", "r", "a", "v", "e", "l">>,
                     <<"a", "c", "c", "o", "m", "m", "o", "d", "a", "t", "i", "o", "n">>>>]
   >>

\* text = f"{title} {description or ''}".lower()
CategorizeText(t, d) == LowerText(Format(t) \o <<" ">> \o OrEmpty(d))

\* any(keyword in text for keyword in keywords)
AnyKeywordIn(keywords, text) ==
    \E k \in DOMAIN keywords : Contains(text, keywords[k])

\* Mutant of DefaultCategory: nothing is returned when no keyword matches.
DefaultCategory_Empty == ""

\* return 'general'
DefaultCategory == "general"

\* Mutant of CategorizeLoop: the last matching sector wins.
RECURSIVE CategorizeLoop_LastWins(_, _)
CategorizeLoop_LastWins(text, i) ==
    IF i > Len(sector_keywords) THEN DefaultCategory
    ELSE LET later == CategorizeLoop_LastWins(text, i + 1)
         IN  IF later # DefaultCategory THEN later
             ELSE IF AnyKeywordIn(sector_keywords[i].keywords, text)
                  THEN sector_keywords[i].sector
                  ELSE DefaultCategory

\* for sector, keywords in self.sector_keywords.items(): ... return sector,
\* from the i-th sector on
RECURSIVE CategorizeLoop(_, _)
CategorizeLoop(text, i) ==
    IF i > Len(sector_keywords) THEN DefaultCategory
    ELSE IF AnyKeywordIn(sector_keywords[i].keywords, text)
         THEN sector_keywords[i].sector
         ELSE CategorizeLoop(text, i + 1)

categorize_article(t, d) == CategorizeLoop(CategorizeText(t, d), 1)

\* The words the titles and descriptions are made of.
Words ==
    {<<"A", "I">>,
     <<"K", "n", "e", "s", "s", "e", "t">>,
     <<"T", "e", "c", "h">>,
     <<"h", "o", "t", "e", "l">>,
     <<"a", "g", "t", "e", "c", "h">>,
     <<"f", "a", "r", "m", "e", "r", "s">>,
     <<"p", "o", "l", "i", "c", "y">>,
     <<"n", "e", "w", "s">>}

\* The words of a list, joined by single spaces.
RECURSIVE JoinWords(_)
JoinWords(ws) ==
    IF ws = <<>> THEN <<>>
    ELSE IF Len(ws) = 1 THEN ws[1]
    ELSE ws[1] \o <<" ">> \o JoinWords(Tail(ws))

TitleArgs == {JoinWords(ws) : ws \in ListsUpTo(Words, MaxWords)} \cup {NoneValue}
DescriptionArgs == Words \cup {<<>>, NoneValue}

InitCat ==
    /\ IdleFetch
    /\ IdleConc
    /\ IdlePipe
    /\ IdleIng
    /\ IdleDb
    /\ IdleImage
    /\ IdleProc
    /\ IdleRate
    /\ IdleDedup
    /\ title \in TitleArgs
    /\ description \in DescriptionArgs
    /\ category = ""
    /\ cat_pc = "called"

\* One call of categorize_article.
Categorize ==
    /\ cat_pc = "called"
    /\ category' = categorize_article(title, description)
    /\ cat_pc' = "returned"
    /\ UNCHANGED <<title, description>>
    /\ UNCHANGED notCat

NextCat == Categorize

SpecCat == InitCat /\ [][NextCat]_vars

(***************************************************************************)
(* Enrichment: NewsProcessor.summarize_article, process_article and        *)
(* process_batch.                                                          *)
(***************************************************************************)
\* What summarize_article returns: the model's JSON answer, the model's
\* answer when it is no JSON, and the defaults when the call failed.
SummaryParsed ==
    [bullets |-> <<"b1", "b2", "b3">>, sentiment |-> "positive",
     importance |-> "high", success |-> TRUE]
SummaryRaw ==
    [bullets |-> <<"raw">>, sentiment |-> "neutral",
     importance |-> "medium", success |-> TRUE]
SummaryFailed ==
    [bullets |-> <<>>, sentiment |-> "neutral",
     importance |-> "medium", success |-> FALSE]

\* What the model call gives: it raises, or its answer is a JSON object,
\* a text that is no JSON, a JSON value that is no object, or no text.
ModelResponses == {"raised", "json_object", "text", "json_other", "no_content"}

\* NewsProcessor.summarize_article on a response: only the JSON error of
\* the parse is caught by the inner except, every other by the outer.
SummaryOf(response) ==
    CASE response = "json_object" -> SummaryParsed
      [] response = "text" -> SummaryRaw
      [] OTHER -> SummaryFailed

summarize_article == {SummaryOf(response) : response \in ModelResponses}

\* The shapes of an article's source field: the query API's dict, a feed's
\* or a page's string, and no source field at all.
SourceDict == [kind |-> "dict", name |-> "Ynet"]
SourceStr == [kind |-> "str", name |-> "Ynet"]
SourceAbsent == [kind |-> "absent", name |-> ""]

\* The raw articles given to process_article.
ProcTitles == {<<"T", "e", "c", "h", " ", "h", "o", "t", "e", "l">>,
               <<"n", "e", "w", "s">>}
ProcArticles ==
    [title : ProcTitles, description : {NoneValue}, content : {<<>>},
     url : Urls, urlToImage : {"img1"}, publishedAt : {"p1"},
     source : {SourceDict, SourceStr, SourceAbsent}]

\* hashlib.sha256(url.encode('utf-8')).hexdigest(): a digest names its input
Sha256(data) == <<"sha256", data>>

\* Mutant of ArticleId: the title is hashed with the url.
ArticleId_WithTitle(article) ==
    IF article.url # "" THEN Sha256(<<article.url, article.title>>)
    ELSE NoneValue

\* hashlib.sha256(...).hexdigest() if article.get('url') else None
ArticleId(article) ==
    IF article.url # "" THEN Sha256(article.url) ELSE NoneValue

\* article.get('source', {}).get('name', '') raises AttributeError when the
\* source is not a dict
SourceRaises(article) == article.source.kind \notin {"dict", "absent"}

SourceName(article) ==
    IF article.source.kind = "dict" THEN article.source.name ELSE ""

\* NewsProcessor.process_article, when it returns; `summary` is what
\* summarize_article returned and `now` what datetime.now() read.
process_article(article, summary, now) ==
    [id           |-> ArticleId(article),
     title        |-> article.title,
     description  |-> article.description,
     url          |-> article.url,
     image_url    |-> article.urlToImage,
     published_at |-> article.publishedAt,
     source       |-> SourceName(article),
     category     |-> categorize_article(article.title, article.description),
     summary      |-> summary.bullets,
     sentiment    |-> summary.sentiment,
     importance   |-> summary.importance,
     processed_at |-> now]

\* One turn of the loop of process_batch: the article is processed and
\* appended, or skipped when process_article raised.
ProcessOne(done, article, summary, now) ==
    IF SourceRaises(article) THEN done
    ELSE Append(done, process_article(article, summary, now))

InitProc ==
    /\ IdleFetch
    /\ IdleConc
    /\ IdlePipe
    /\ IdleIng
    /\ IdleDb
    /\ IdleImage
    /\ IdleRate
    /\ IdleDedup
    /\ IdleCat
    /\ batch \in ListsUpTo(ProcArticles, MaxBatch)
    /\ processed = <<>>
    /\ batch_i = 1
    /\ summary_log = <<>>

\* NewsProcessor.process_batch: the turn of the loop for the next article.
ProcessNext ==
    /\ batch_i \in DOMAIN batch
    /\ \E summary \in summarize_article :
          /\ processed' =
                ProcessOne(processed, batch[batch_i], summary, batch_i)
          /\ summary_log' = Append(summary_log, summary)
    /\ batch_i' = batch_i + 1
    /\ UNCHANGED batch
    /\ UNCHANGED notProc

NextProc == ProcessNext

SpecProc == InitProc /\ [][NextProc]_vars

(***************************************************************************)
(* The orchestrator: NewsPipeline.run_full_pipeline and the stage methods  *)
(* run_ingestor, run_processor, run_asset_automator and save_to_database.  *)
(* One action is one call of a collaborator (or the exit of a stage's      *)
(* loop), together with the bookkeeping that follows it.                   *)
(***************************************************************************)
\* dict.get(key, default)
Get(dict, key, default) == IF key \in DOMAIN dict THEN dict[key] ELSE default

\* dict[key] = value
Set(dict, key, value) ==
    [k \in DOMAIN dict \cup {key} |-> IF k = key THEN value ELSE dict[k]]

\* Two articles of the query API.
ApiArticle1 ==
    [title |-> <<"T", "e", "c", "h", " ", "h", "o", "t", "e", "l">>,
     description |-> NoneValue, content |-> <<>>, url |-> "u1",
     urlToImage |-> "img1", publishedAt |-> "p1", source |-> SourceDict]
ApiArticle2 ==
    [title |-> <<"n", "e", "w", "s">>,
     description |-> NoneValue, content |-> <<>>, url |-> "u2",
     urlToImage |-> "", publishedAt |-> "p1", source |-> SourceDict]

\* What one call of fetch_by_category does: it raises, or returns a
\* deduplicated list.
FetchOutcomes ==
    {[raised |-> TRUE, articles |-> <<>>],
     [raised |-> FALSE, articles |-> <<>>],
     [raised |-> FALSE, articles |-> <<ApiArticle1>>],
     [raised |-> FALSE, articles |-> <<ApiArticle1, ApiArticle2>>]}

\* article['sector'] = category, for the articles of a fetch
Tagged(list, sector) == [i \in DOMAIN list |-> Set(list[i], "sector", sector)]

\* What the processor's summarizer returns in a pipeline run.
PipelineSummaries == {SummaryParsed, SummaryFailed}

\* What one upload_image call returns for a non-empty url.
UploadOutcomes == {"hosted", "failed"}

\* What the database does with one article of save_to_database.
SaveOutcomes == {"saved", "no_category", "query_raised", "insert_raised"}

\* ImageUploader._get_fallback_image
FallbackImage == "fallback"

\* The hosted url of an uploaded image.
HostedUrl(url) == IF url = "img1" THEN "hosted/img1" ELSE "hosted/other"

\* The categories the pipeline is run for.
RequestedCategories == {<<"tech">>, <<"tech", "general">>}

\* The stages, by position in run_full_pipeline.
StageName(pc) ==
    CASE pc = "ingest" -> "INGEST"
      [] pc = "enrich" -> "ENRICH"
      [] pc = "assets" -> "RESOLVE_ASSETS"
      [] pc = "persist" -> "PERSIST"

\* Mutant of NextStage: the step of the images is left out.
NextStage_NoAssets(pc) ==
    CASE pc = "ingest" -> "enrich"
      [] pc = "enrich" -> "persist"
      [] pc = "assets" -> "persist"
      [] pc = "persist" -> "done"

\* Mutant of NextStage: the images are handled before the enrichment.
NextStage_AssetsFirst(pc) ==
    CASE pc = "ingest" -> "assets"
      [] pc = "assets" -> "enrich"
      [] pc = "enrich" -> "persist"
      [] pc = "persist" -> "done"

\* run_full_pipeline: Step 1 to Step 4, then Complete
NextStage(pc) ==
    CASE pc = "ingest" -> "enrich"
      [] pc = "enrich" -> "assets"
      [] pc = "assets" -> "persist"
      [] pc = "persist" -> "done"

\* The log with the running stage noted.
Logged(log, stage) ==
    IF log # <<>> /\ log[Len(log)] = stage THEN log ELSE Append(log, stage)

\* One more call counted for the stage.
Counted(stage) == [calls EXCEPT ![stage] = @ + 1]

\* A call counted for the stage when `called`, and n more failures that the
\* program caught.
CountedWith(stage, called, n) ==
    [(IF called THEN Counted(stage) ELSE calls) EXCEPT !.failed = @ + n]

\* The positions of a list that meet `outcome`.
Positions(outcomes, outcome) ==
    {i \in DOMAIN outcomes : outcomes[i] = outcome}

\* NewsProcessor.process_batch on `list`, article i on, with the
\* summarizer's answers `summaries`.
RECURSIVE ProcessBatchFrom(_, _, _, _)
ProcessBatchFrom(list, summaries, i, done) ==
    IF i > Len(list) THEN done
    ELSE ProcessBatchFrom(list, summaries, i + 1,
                          ProcessOne(done, list[i], summaries[i], i))

process_batch(list, summaries) == ProcessBatchFrom(list, summaries, 1, <<>>)

\* ImageUploader.process_article_images: one turn of its loop; `outcome` is
\* what upload_image does.
ProcessImage(article, outcome) ==
    LET original_url == Get(article, "image_url", "")
    IN  IF original_url # "" /\ outcome = "hosted"
        THEN Set(article, "image_url", HostedUrl(original_url))
        ELSE Set(article, "image_url", FallbackImage)

process_article_images(list, outcomes) ==
    [i \in DOMAIN list |-> ProcessImage(list[i], outcomes[i])]

\* The results record run_full_pipeline starts from.
NewResults ==
    [categories |-> <<>>, total_articles |-> 0, processed_articles |-> 0,
     saved_articles |-> 0, errors |-> <<>>, ended |-> FALSE]

\* Mutant of RawCounted: the total counts each category's articles twice.
RECURSIVE RawCounted_TotalTwice(_, _, _)
RawCounted_TotalTwice(res, raw, i) ==
    IF i > Len(raw) THEN res
    ELSE RawCounted_TotalTwice(
            [res EXCEPT
               !.categories = Set(@, raw[i].category,
                                  [raw_count |-> Len(raw[i].articles)]),
               !.total_articles = @ + 2 * Len(raw[i].articles)],
            raw, i + 1)

\* results['categories'][category] = {'raw_count': len(articles)} and
\* results['total_articles'] += len(articles), for the entries i on
RECURSIVE RawCounted(_, _, _)
RawCounted(res, raw, i) ==
    IF i > Len(raw) THEN res
    ELSE RawCounted(
            [res EXCEPT
               !.categories = Set(@, raw[i].category,
                                  [raw_count |-> Len(raw[i].articles)]),
               !.total_articles = @ + Len(raw[i].articles)],
            raw, i + 1)

\* NewsPipeline.__init__ and the start of run_full_pipeline.
InitPipe ==
    /\ IdleFetch
    /\ IdleConc
    /\ IdleIng
    /\ IdleDb
    /\ IdleImage
    /\ IdleRate
    /\ IdleDedup
    /\ IdleCat
    /\ IdleProc
    /\ ingestor \in BOOLEAN
    /\ processor \in BOOLEAN
    /\ uploader \in BOOLEAN
    /\ db \in BOOLEAN
    /\ categories \in RequestedCategories
    /\ save \in BOOLEAN
    /\ pipe_pc = "ingest"
    /\ loop_i = 1
    /\ raw_articles = <<>>
    /\ all_processed = <<>>
    /\ final_articles = <<>>
    /\ saved = 0
    /\ results = NewResults
    /\ stage_log = <<>>
    /\ step_log = <<StageName("ingest")>>
    /\ save_log = <<>>
    /\ calls = [ingest |-> 0, enrich |-> 0, assets |-> 0, persist |-> 0,
                failed |-> 0]

\* run_ingestor: one turn of its loop, a call of fetch_by_category.
IngestFetch ==
    /\ pipe_pc = "ingest"
    /\ ingestor
    /\ loop_i \in DOMAIN categories
    /\ \E fetched \in FetchOutcomes :
          /\ raw_articles' =
                Append(raw_articles,
                       [category |-> categories[loop_i],
                        articles |-> IF fetched.raised THEN <<>>
                                     ELSE Tagged(fetched.articles,
                                                 categories[loop_i])])
          /\ calls' = CountedWith("ingest", TRUE,
                                  IF fetched.raised THEN 1 ELSE 0)
    /\ loop_i' = loop_i + 1
    /\ stage_log' = Logged(stage_log, StageName("ingest"))
    /\ UNCHANGED <<ingestor, processor, uploader, db, categories, save,
                   pipe_pc, all_processed, final_articles, saved, results>>
    /\ UNCHANGED <<step_log, save_log>>
    /\ UNCHANGED notPipe

\* run_ingestor returns (at once when there is no ingestor) and the raw
\* counts are recorded.
IngestDone ==
    /\ pipe_pc = "ingest"
    /\ ~ingestor \/ loop_i > Len(categories)
    /\ results' = RawCounted(results, raw_articles, 1)
    /\ pipe_pc' = NextStage("ingest")
    /\ loop_i' = 1
    /\ stage_log' = Logged(stage_log, StageName("ingest"))
    /\ UNCHANGED <<ingestor, processor, uploader, db, categories, save,
                   raw_articles, all_processed, final_articles, saved, calls>>
    /\ step_log' = Append(step_log, StageName(pipe_pc'))
    /\ UNCHANGED save_log
    /\ UNCHANGED notPipe

\* NewsPipeline.run_processor; `summaries` is what the summarizer answers.
run_processor(list, summaries) ==
    IF ~processor THEN list ELSE process_batch(list, summaries)

\* Mutant of run_asset_automator: the uploader is used without the test of
\* its presence.
run_asset_automator_NoTest(list, outcomes) ==
    process_article_images(list, outcomes)

\* NewsPipeline.run_asset_automator; `outcomes` is what upload_image does.
run_asset_automator(list, outcomes) ==
    IF ~uploader THEN list ELSE process_article_images(list, outcomes)

\* Step 2: one turn of the loop over raw_articles, a call of run_processor
\* when the category has articles.
EnrichCategory ==
    /\ pipe_pc = "enrich"
    /\ loop_i \in DOMAIN raw_articles
    /\ LET entry == raw_articles[loop_i]
       IN  IF entry.articles = <<>>
           THEN UNCHANGED <<all_processed, results, calls, stage_log>>
           ELSE \E summaries \in [DOMAIN entry.articles -> PipelineSummaries] :
                   LET done == run_processor(entry.articles, summaries)
                   IN  /\ (~processor) =>
                              \A i \in DOMAIN summaries :
                                  summaries[i] = SummaryFailed
                       /\ all_processed' = all_processed \o done
                       /\ results' =
                             [results EXCEPT
                                !.categories[entry.category] =
                                    Set(@, "processed_count", Len(done))]
                       /\ calls' =
                             CountedWith(
                                "enrich", processor,
                                IF processor
                                THEN Cardinality(
                                        Positions(summaries, SummaryFailed))
                                     + Len(entry.articles) - Len(done)
                                ELSE 0)
                       /\ stage_log' = Logged(stage_log, StageName("enrich"))
    /\ loop_i' = loop_i + 1
    /\ UNCHANGED <<ingestor, processor, uploader, db, categories, save,
                   pipe_pc, raw_articles, final_articles, saved>>
    /\ UNCHANGED <<step_log, save_log>>
    /\ UNCHANGED notPipe

\* The loop of Step 2 ends: results['processed_articles'] is set.
EnrichDone ==
    /\ pipe_pc = "enrich"
    /\ loop_i > Len(raw_articles)
    /\ results' = [results EXCEPT !.processed_articles = Len(all_processed)]
    /\ pipe_pc' = NextStage("enrich")
    /\ loop_i' = 1
    /\ UNCHANGED <<ingestor, processor, uploader, db, categories, save,
                   raw_articles, all_processed, final_articles, saved, calls,
                   stage_log>>
    /\ step_log' = Append(step_log, StageName(pipe_pc'))
    /\ UNCHANGED save_log
    /\ UNCHANGED notPipe

\* The number of articles in the entries of raw_articles before the k-th.
RECURSIVE ArticlesBefore(_, _)
ArticlesBefore(raw, k) ==
    IF k <= 1 THEN 0
    ELSE ArticlesBefore(raw, k - 1) + Len(raw[k - 1].articles)

\* raw_articles as it reads once the dicts of `list` were changed in place:
\* without a processor run_processor returns the raw list itself, so
\* all_processed is made of the very dicts of raw_articles, entry after
\* entry; with a processor process_article makes new dicts.
SharedRaw(raw, list) ==
    IF processor \/ Len(list) # ArticlesBefore(raw, Len(raw) + 1) THEN raw
    ELSE [k \in DOMAIN raw |->
             [raw[k] EXCEPT
                !.articles = SubSeq(list, ArticlesBefore(raw, k) + 1,
                                    ArticlesBefore(raw, k) + Len(@))]]

\* Step 3: run_asset_automator, which changes the articles in place and
\* returns the list it was given.
ResolveAssets ==
    /\ pipe_pc = "assets"
    /\ \E outcomes \in [DOMAIN all_processed -> UploadOutcomes] :
          LET done == run_asset_automator(all_processed, outcomes)
          IN  /\ \A i \in DOMAIN outcomes :
                    (~uploader \/ Get(all_processed[i], "image_url", "") = "")
                        => outcomes[i] = "failed"
              /\ final_articles' = done
              /\ all_processed' = done
              /\ raw_articles' = SharedRaw(raw_articles, done)
              /\ calls' =
                    CountedWith(
                       "assets", uploader,
                       Cardinality(
                          {i \in Positions(outcomes, "failed") :
                              uploader
                              /\ Get(all_processed[i], "image_url", "") # ""}))
    /\ pipe_pc' = NextStage("assets")
    /\ loop_i' = 1
    /\ stage_log' = Logged(stage_log, StageName("assets"))
    /\ UNCHANGED <<ingestor, processor, uploader, db, categories, save,
                   saved, results>>
    /\ step_log' = IF save THEN Append(step_log, StageName(pipe_pc'))
                   ELSE step_log
    /\ UNCHANGED save_log
    /\ UNCHANGED notPipe

\* category = article.get('category', 'general'): the category that
\* save_to_database looks up for an article
CategoryOf(article) == Get(article, "category", "general")

\* Mutant of SavedAfter: the count is incremented before the insert.
SavedAfter_BeforeInsert(count, outcome) ==
    IF outcome \in {"saved", "insert_raised"} THEN count + 1 ELSE count

\* saved += 1, reached only when the category was found and insert_article
\* returned
SavedAfter(count, outcome) ==
    IF outcome = "saved" THEN count + 1 ELSE count

\* save_to_database: one turn of its loop; the category is looked up and,
\* when it is found, the article is inserted.  article['category_id'] is
\* written into the dict, which final_articles, all_processed (the same
\* list) and, without a processor, raw_articles hold.
SaveArticle ==
    /\ pipe_pc = "persist"
    /\ save
    /\ db
    /\ loop_i \in DOMAIN final_articles
    /\ \E outcome \in SaveOutcomes :
          /\ save_log' = Append(save_log, outcome)
          /\ calls' = CountedWith(
                         "persist", TRUE,
                         IF outcome \in {"query_raised", "insert_raised"}
                         THEN 1 ELSE 0)
          /\ saved' = SavedAfter(saved, outcome)
          /\ final_articles' =
                IF outcome \in {"no_category", "query_raised"}
                THEN final_articles
                ELSE [final_articles EXCEPT
                        ![loop_i] = Set(@, "category_id", 1)]
    /\ all_processed' = final_articles'
    /\ raw_articles' = SharedRaw(raw_articles, final_articles')
    /\ loop_i' = loop_i + 1
    /\ stage_log' = Logged(stage_log, StageName("persist"))
    /\ UNCHANGED <<ingestor, processor, uploader, db, categories, save,
                   pipe_pc, results, step_log>>
    /\ UNCHANGED notPipe

\* Step 4 ends (or is not run): the saved count is recorded and
\* run_full_pipeline returns results.
PersistDone ==
    /\ pipe_pc = "persist"
    /\ ~save \/ ~db \/ loop_i > Len(final_articles)
    /\ results' = [results EXCEPT
                     !.saved_articles = IF save THEN saved ELSE @,
                     !.ended = TRUE]
    /\ pipe_pc' = NextStage("persist")
    /\ stage_log' = IF save THEN Logged(stage_log, StageName("persist"))
                    ELSE stage_log
    /\ UNCHANGED <<ingestor, processor, uploader, db, categories, save,
                   loop_i, raw_articles, all_processed, final_articles, saved,
                   calls>>
    /\ UNCHANGED <<step_log, save_log>>
    /\ UNCHANGED notPipe

NextPipe ==
    \/ IngestFetch
    \/ IngestDone
    \/ EnrichCategory
    \/ EnrichDone
    \/ ResolveAssets
    \/ SaveArticle
    \/ PersistDone

SpecPipe == InitPipe /\ [][NextPipe]_vars

\* run_full_pipeline is sequential code: when the call it is in returns, its
\* next statement is executed.
FairSpecPipe == SpecPipe /\ WF_vars(NextPipe)

(***************************************************************************)
(* The sector fetches: NewsScraper.fetch_all_sectors and fetch_by_category *)
(* with the fetch_from_newsapi and fetch_from_rss calls they make.  One    *)
(* action is one fetch with the tagging and accumulation that follow it.   *)
(***************************************************************************)
\* for query in queries[:2], in fetch_all_sectors
AllSectorsQueryLimit == 2

\* for query in queries[:3], in fetch_by_category
CategoryQueryLimit == 3

\* list[:n]
Take(list, n) == SubSeq(list, 1, IF n < Len(list) THEN n ELSE Len(list))

\* The sectors a configuration (feeds.json, or the default) may name, in
\* the order of the configuration's dict; sports is a sector that
\* fetch_all_sectors has no list for.
ConfigSectors == <<"farming", "tech", "sports">>

\* The sectors named by one configuration.
ConfiguredSectors == {{"farming", "tech"}, {"farming", "sports"}}

\* A list of n search queries, each named by its position.
Queries(n) == [i \in 1 .. n |-> i]

\* The keys of fetch_all_sectors's all_articles, in the dict's order.
SectorKeys == <<"farming", "tech", "politics", "hospitality", "general">>

\* NewsScraper._get_rss_feeds: the feeds of each sector, in the dict's order
\* (each feed named by its position).
RssFeeds ==
    <<[sector |-> "general", feeds |-> <<1, 2>>],
      [sector |-> "tech", feeds |-> <<1>>],
      [sector |-> "farming", feeds |-> <<1>>]>>

\* The lists of a list of lists, one after the other.
RECURSIVE Flatten(_)
Flatten(lists) ==
    IF lists = <<>> THEN <<>> ELSE Head(lists) \o Flatten(Tail(lists))

\* The query fetches of one sector: one for each of its first `limit` queries.
QueryFetches(sector, queries, limit) ==
    [i \in DOMAIN Take(queries, limit) |->
        [kind |-> "query", sector |-> sector, n |-> Take(queries, limit)[i]]]

\* The feed fetches of one sector.
FeedFetches(entry) ==
    [i \in DOMAIN entry.feeds |->
        [kind |-> "rss", sector |-> entry.sector, n |-> entry.feeds[i]]]

\* The fetches of fetch_all_sectors(use_rss), in order: the sectors' queries,
\* the general fetch (country='il'), then the feeds.
AllSectorsPlan(config, use_rss) ==
    Flatten([s \in DOMAIN ConfigSectors |->
                IF ConfigSectors[s] \in DOMAIN config
                THEN QueryFetches(ConfigSectors[s], config[ConfigSectors[s]],
                                  AllSectorsQueryLimit)
                ELSE <<>>])
    \o <<[kind |-> "country", sector |-> "general", n |-> 1]>>
    \o (IF use_rss
        THEN Flatten([f \in DOMAIN RssFeeds |-> FeedFetches(RssFeeds[f])])
        ELSE <<>>)

\* The fetches of fetch_by_category(category), in order; a category that is
\* not configured has the one query "Israel <category>".
CategoryPlan(config, name) ==
    QueryFetches(name,
                 IF name \in DOMAIN config THEN config[name]
                 ELSE Queries(1),
                 CategoryQueryLimit)

\* Articles of the query API and of a feed; the feed's has the url of the
\* first.
NewsapiArticle1 == [url |-> "u1", title |-> "t1", source |-> SourceDict]
NewsapiArticle2 == [url |-> "u2", title |-> "t2", source |-> SourceDict]
NewsapiArticle3 == [url |-> "", title |-> "t3", source |-> SourceDict]
FeedArticle ==
    [url |-> "u1", title |-> "t1", source |-> SourceStr.name,
     external_id |-> "g1"]

\* What a fetch_from_newsapi call meets: the exception raised inside it, or
\* none and the articles of the response.
NewsapiOutcomes ==
    {[error |-> "RequestException", articles |-> <<>>],
     [error |-> "JSONDecodeError", articles |-> <<>>],
     [error |-> "AttributeError", articles |-> <<>>],
     [error |-> "", articles |-> <<NewsapiArticle1>>],
     [error |-> "", articles |->
         <<NewsapiArticle2, NewsapiArticle3, NewsapiArticle1>>]}

\* What a fetch_from_rss call meets: the exception raised while it parsed
\* an entry (the first, or a later one) and the articles it had appended by
\* then, or no exception and the articles of the feed.
RssOutcomes ==
    {[error |-> "IndexError", articles |-> <<>>],
     [error |-> "IndexError", articles |-> <<FeedArticle>>],
     [error |-> "", articles |-> <<FeedArticle>>]}

\* except requests.exceptions.RequestException / except json.JSONDecodeError
NewsapiCaught(error) == error \in {"RequestException", "JSONDecodeError"}

\* except Exception, in fetch_from_rss
RssCaught(error) == TRUE

\* all_articles[sector].append(article) raises KeyError: the dict has no
\* list for the sector and there is an article to append.
AppendRaises(lists, sector, fetched) ==
    sector \notin DOMAIN lists /\ fetched # <<>>

\* The state after one fetch of the plan that met `outcome`: the fetch
\* returned its list `articles` (as it was when an exception was caught),
\* which is tagged and accumulated, or the exception left the operation;
\* so did the KeyError of the accumulation.
AfterFetch(outcome, caught) ==
    LET fetch == plan[plan_i]
    IN  /\ fetch_log' =
              Append(fetch_log,
                     [kind |-> fetch.kind, sector |-> fetch.sector,
                      n |-> fetch.n, error |-> outcome.error,
                      articles |-> outcome.articles])
        /\ IF \/ outcome.error # "" /\ ~caught
              \/ AppendRaises(all_articles, fetch.sector, outcome.articles)
           THEN /\ ing_pc' = "raised"
                /\ UNCHANGED <<all_articles, plan_i>>
           ELSE /\ all_articles' =
                      [all_articles EXCEPT
                         ![fetch.sector] =
                             @ \o Tagged(outcome.articles, fetch.sector)]
                /\ plan_i' = plan_i + 1
                /\ UNCHANGED ing_pc

InitIng ==
    /\ IdleFetch
    /\ IdleConc
    /\ IdleDb
    /\ IdleImage
    /\ IdleRate
    /\ IdleDedup
    /\ IdleCat
    /\ IdleProc
    /\ IdlePipe
    /\ feeds_config \in
          UNION {[sectors -> {Queries(n) : n \in 0 .. MaxQueries}] :
                    sectors \in ConfiguredSectors}
    /\ ing_op \in
          {[name |-> "fetch_all_sectors", use_rss |-> r, category |-> ""] :
              r \in BOOLEAN}
          \cup {[name |-> "fetch_by_category", use_rss |-> FALSE,
                 category |-> c] : c \in {"tech", "general"}}
    /\ plan = IF ing_op.name = "fetch_all_sectors"
              THEN AllSectorsPlan(feeds_config, ing_op.use_rss)
              ELSE CategoryPlan(feeds_config, ing_op.category)
    /\ plan_i = 1
    /\ all_articles =
          IF ing_op.name = "fetch_all_sectors"
          THEN [s \in {SectorKeys[k] : k \in DOMAIN SectorKeys} |-> <<>>]
          ELSE [s \in {ing_op.category} |-> <<>>]
    /\ fetch_log = <<>>
    /\ ing_pc = "fetching"
    /\ ing_result = <<>>

\* One fetch_from_newsapi call of the operation.
FetchFromNewsapi ==
    /\ ing_pc = "fetching"
    /\ plan_i \in DOMAIN plan
    /\ plan[plan_i].kind \in {"query", "country"}
    /\ \E outcome \in NewsapiOutcomes :
          AfterFetch(outcome, NewsapiCaught(outcome.error))
    /\ UNCHANGED <<feeds_config, ing_op, plan, ing_result>>
    /\ UNCHANGED notIng

\* One fetch_from_rss call of fetch_all_sectors.
FetchFromRss ==
    /\ ing_pc = "fetching"
    /\ plan_i \in DOMAIN plan
    /\ plan[plan_i].kind = "rss"
    /\ \E outcome \in RssOutcomes :
          AfterFetch(outcome, RssCaught(outcome.error))
    /\ UNCHANGED <<feeds_config, ing_op, plan, ing_result>>
    /\ UNCHANGED notIng

\* Mutant of DedupSectors: one seen_urls for all the sectors.
DedupSectors_SharedSeen(lists) ==
    LET Before(s) ==
            {t \in DOMAIN lists :
                \E k, n \in DOMAIN SectorKeys :
                   SectorKeys[k] = t /\ SectorKeys[n] = s /\ k < n}
        Seen(s) ==
            UNION {{lists[t][i].url : i \in DOMAIN lists[t]} : t \in Before(s)}
    IN  [s \in DOMAIN lists |-> DedupLoop(lists[s], Seen(s), <<>>)]

\* for sector in all_articles: seen_urls = set(); ...: each sector's list
\* is deduplicated with its own seen_urls.
DedupSectors(lists) == [s \in DOMAIN lists |-> Deduplicate(lists[s])]

\* The fetches are done: each sector's list is deduplicated and returned.
\* fetch_all_sectors puts the deduplicated lists into all_articles and
\* returns that dict; fetch_by_category returns the new list
\* unique_articles of its one category and leaves its list as it is.
ReturnArticles ==
    /\ ing_pc = "fetching"
    /\ plan_i > Len(plan)
    /\ ing_result' = DedupSectors(all_articles)
    /\ all_articles' = IF ing_op.name = "fetch_all_sectors"
                       THEN ing_result' ELSE all_articles
    /\ ing_pc' = "returned"
    /\ UNCHANGED <<feeds_config, ing_op, plan, plan_i, fetch_log>>
    /\ UNCHANGED notIng

NextIng ==
    \/ FetchFromNewsapi
    \/ FetchFromRss
    \/ ReturnArticles

SpecIng == InitIng /\ [][NextIng]_vars

(***************************************************************************)
(* The fetch operations of one NewsScraper: fetch_from_newsapi,            *)
(* fetch_from_rss and fetch_from_website, each with the _rate_limit call   *)
(* it makes and the outbound request that follows, and the operations on   *)
(* the fetched list (the deduplication of fetch_by_category and            *)
(* fetch_all_sectors, to_json_format).  fetch_by_category and              *)
(* fetch_all_sectors are sequences of these steps.                         *)
(***************************************************************************)
FetchKinds == {"newsapi", "rss", "website"}

\* Articles as fetch_from_rss and fetch_from_website build them.
RssArticle ==
    [url |-> "u1", title |-> "t1", source |-> SourceStr, external_id |-> "g1"]
WebsiteArticle == [url |-> "u2", title |-> "t2", source |-> SourceStr]

\* What the outbound request of a fetch operation and the parsing of its
\* response meet: the exception raised and the articles appended by then.
RssResponses ==
    {[error |-> "IndexError", articles |-> <<>>],
     [error |-> "IndexError", articles |-> <<RssArticle>>],
     [error |-> "", articles |-> <<RssArticle, RssArticle>>]}

WebsiteResponses ==
    {[error |-> "RequestException", articles |-> <<>>],
     [error |-> "FeatureNotFound", articles |-> <<>>],
     [error |-> "", articles |-> <<WebsiteArticle>>]}

Responses(kind) ==
    CASE kind = "newsapi" -> NewsapiOutcomes
      [] kind = "rss"     -> RssResponses
      [] kind = "website" -> WebsiteResponses

\* except requests.exceptions.RequestException, in fetch_from_website
WebsiteCaught(error) == error = "RequestException"

Caught(kind, error) ==
    CASE kind = "newsapi" -> NewsapiCaught(error)
      [] kind = "rss"     -> RssCaught(error)
      [] kind = "website" -> WebsiteCaught(error)

\* article.get('source', {}).get('name', '') if isinstance(
\* article.get('source'), dict) else article.get('source', '')
SourceText(article) ==
    LET source == Get(article, "source", SourceAbsent)
    IN  IF source.kind = "absent" THEN "" ELSE source.name

\* One article of to_json_format; the model's articles have no description,
\* summary, content, image or date.
FormatArticle(article) ==
    [external_id  |-> Get(article, "external_id", Get(article, "url", "")),
     title        |-> Get(article, "title", ""),
     description  |-> "",
     content      |-> "",
     url          |-> Get(article, "url", ""),
     image_url    |-> "",
     published_at |-> "",
     source       |-> SourceText(article),
     category     |-> Get(article, "sector",
                          Get(article, "category", "general"))]

to_json_format(list) == [i \in DOMAIN list |-> FormatArticle(list[i])]

\* A scraper that has made no call yet, constructed just now or most of a
\* day ago.
InitFetch ==
    /\ IdleConc
    /\ IdleDb
    /\ IdleImage
    /\ IdleDedup
    /\ IdleCat
    /\ IdleProc
    /\ IdlePipe
    /\ IdleIng
    /\ clock = ConcStart
    /\ daily_request_count = 0
    /\ daily_reset_time \in {ConcStart, ConcStart - DayTicks + 1}
    /\ last_request_time = 0
    /\ returns = <<>>
    /\ last_return = -1
    /\ call = NoCall
    /\ fetch_pc = "idle"
    /\ fetch_kind = ""
    /\ fetch_ret = [error |-> "", caught |-> FALSE]
    /\ scraped = <<>>
    /\ formatted = <<>>
    /\ n_fetches = 0
    /\ call_acqs = 0
    /\ since_request = 0

\* Mutant of FetchCall: the operation goes to its request without
\* _rate_limit.
FetchCall_NoAcquire ==
    /\ fetch_pc = "idle"
    /\ n_fetches < MaxFetches
    /\ \E kind \in FetchKinds : fetch_kind' = kind
    /\ fetch_pc' = "acquired"
    /\ n_fetches' = n_fetches + 1
    /\ call_acqs' = 0
    /\ UNCHANGED <<fetch_ret, scraped, formatted, since_request>>
    /\ UNCHANGED rateVars
    /\ UNCHANGED notFetch

\* A fetch operation is called: articles = []
FetchCall ==
    /\ fetch_pc = "idle"
    /\ n_fetches < MaxFetches
    /\ \E kind \in FetchKinds : fetch_kind' = kind
    /\ fetch_pc' = "called"
    /\ n_fetches' = n_fetches + 1
    /\ call_acqs' = 0
    /\ UNCHANGED <<fetch_ret, scraped, formatted, since_request>>
    /\ UNCHANGED rateVars
    /\ UNCHANGED notFetch

\* self._rate_limit(), the statement before the try of each fetch operation
FetchAcquire ==
    /\ fetch_pc = "called"
    /\ \E over1 \in 0 .. MaxOversleep, over2 \in 0 .. MaxOversleep :
          RateLimitCall(over1, over2)
    /\ fetch_pc' = "acquired"
    /\ call_acqs' = call_acqs + 1
    /\ since_request' = since_request + 1
    /\ UNCHANGED <<fetch_kind, fetch_ret, scraped, formatted, n_fetches>>
    /\ UNCHANGED notFetch

\* What the caller holds after a fetch that met `response`: the returned
\* list, or what it held when the exception left the operation.
Returned(held, response, caught) ==
    IF response.error # "" /\ ~caught THEN held ELSE response.articles

\* Mutant of FetchRequest: a failed request gives its acquisition back.
FetchRequest_Refund ==
    /\ fetch_pc = "acquired"
    /\ \E response \in Responses(fetch_kind) :
          LET caught == Caught(fetch_kind, response.error)
          IN  /\ fetch_ret' = [error |-> response.error, caught |-> caught]
              /\ scraped' = Returned(scraped, response, caught)
              /\ daily_request_count' =
                    IF response.error # "" THEN daily_request_count - 1
                    ELSE daily_request_count
    /\ fetch_pc' = "idle"
    /\ since_request' = 0
    /\ UNCHANGED <<fetch_kind, formatted, n_fetches, call_acqs>>
    /\ UNCHANGED <<clock, daily_reset_time, last_request_time, returns,
                   last_return, call>>
    /\ UNCHANGED notFetch

\* The try of a fetch operation: the outbound request (session.get,
\* feedparser.parse), the parsing of the response, the except clauses and
\* return articles.
FetchRequest ==
    /\ fetch_pc = "acquired"
    /\ \E response \in Responses(fetch_kind) :
          LET caught == Caught(fetch_kind, response.error)
          IN  /\ fetch_ret' = [error |-> response.error, caught |-> caught]
              /\ scraped' = Returned(scraped, response, caught)
    /\ fetch_pc' = "idle"
    /\ since_request' = 0
    /\ UNCHANGED <<fetch_kind, formatted, n_fetches, call_acqs>>
    /\ UNCHANGED rateVars
    /\ UNCHANGED notFetch

\* The deduplication loop that fetch_by_category and fetch_all_sectors run
\* on the fetched list.
DeduplicateFetched ==
    /\ fetch_pc = "idle"
    /\ scraped # <<>>
    /\ scraped' = Deduplicate(scraped)
    /\ UNCHANGED <<fetch_pc, fetch_kind, fetch_ret, formatted, n_fetches,
                   call_acqs, since_request>>
    /\ UNCHANGED rateVars
    /\ UNCHANGED notFetch

\* NewsScraper.to_json_format on the fetched list
ToJsonFormat ==
    /\ fetch_pc = "idle"
    /\ scraped # <<>>
    /\ formatted' = to_json_format(scraped)
    /\ UNCHANGED <<fetch_pc, fetch_kind, fetch_ret, scraped, n_fetches,
                   call_acqs, since_request>>
    /\ UNCHANGED rateVars
    /\ UNCHANGED notFetch

\* Time passes between two operations.
FetchTick ==
    /\ fetch_pc = "idle"
    /\ clock < ConcStart + MaxConcTicks
    /\ Tick

NextFetch ==
    \/ FetchCall
    \/ FetchAcquire
    \/ FetchRequest
    \/ DeduplicateFetched
    \/ ToJsonFormat
    \/ FetchTick

SpecFetch == InitFetch /\ [][NextFetch]_vars

(***************************************************************************)
(* The database: PostgreSQLConnection over the articles table.  The        *)
(* connection works in one transaction; execute_insert and execute_update  *)
(* commit it, execute_query, which insert_article runs its statement       *)
(* with, does not.                                                         *)
(***************************************************************************)
\* json.dumps(article.get('summary', []))
JsonDumps(value) == <<"json", value>>

\* CURRENT_TIMESTAMP: the time the connection's transaction started; the
\* rows committed before it have earlier times.
CurrentTimestamp == 1

\* The fields the processor and the pipeline give an article besides its
\* url, title and description: two variants.
Enrichments ==
    {[image_url |-> "hosted/img1", published_at |-> "p1", source |-> "Ynet",
      category_id |-> 1, summary |-> <<"b1", "b2", "b3">>,
      sentiment |-> "positive", importance |-> "high"],
     [image_url |-> "fallback", published_at |-> "p1", source |-> "Ynet",
      category_id |-> 2, summary |-> <<>>,
      sentiment |-> "neutral", importance |-> "medium"]}

\* The articles given to insert_article.
DbArticles ==
    {[k \in DOMAIN e \cup {"url", "title", "description"} |->
         CASE k = "url" -> u
           [] k = "title" -> t
           [] k = "description" -> d
           [] OTHER -> e[k]] :
       u \in {"u1", "u2"}, t \in {"t1", "t2"}, d \in {"d1", "d2"},
       e \in Enrichments}

\* The row INSERT ... VALUES makes of the statement's parameters.
NewRow(article, id) ==
    [id           |-> id,
     external_id  |-> Get(article, "external_id", NoneValue),
     title        |-> article.title,
     description  |-> article.description,
     content      |-> Get(article, "content", NoneValue),
     url          |-> article.url,
     image_url    |-> article.image_url,
     published_at |-> article.published_at,
     source       |-> article.source,
     category_id  |-> article.category_id,
     summary      |-> JsonDumps(article.summary),
     sentiment    |-> article.sentiment,
     importance   |-> article.importance,
     updated_at   |-> CurrentTimestamp]

\* The next value of the id column.
NextId(rows) == Cardinality(rows) + 1

\* Mutant of Upsert: the statement without its ON CONFLICT clause.
Upsert_NoConflictClause(rows, article) ==
    rows \cup {NewRow(article, NextId(rows))}

\* INSERT INTO articles ... ON CONFLICT (url) DO UPDATE SET title,
\* description, updated_at
Upsert(rows, article) ==
    IF \A r \in rows : r.url # article.url
    THEN rows \cup {NewRow(article, NextId(rows))}
    ELSE {IF r.url = article.url
          THEN [r EXCEPT !.title = article.title,
                         !.description = article.description,
                         !.updated_at = CurrentTimestamp]
          ELSE r : r \in rows}

\* RETURNING id
ReturnedId(rows, article) == (CHOOSE r \in rows : r.url = article.url).id

\* A row committed by an earlier run.
StoredRow ==
    [id |-> 1, external_id |-> NoneValue, title |-> "t1",
     description |-> "d1", content |-> NoneValue, url |-> "u1",
     image_url |-> "hosted/img1", published_at |-> "p1", source |-> "Ynet",
     category_id |-> 1, summary |-> JsonDumps(<<"b1", "b2", "b3">>),
     sentiment |-> "positive", importance |-> "high", updated_at |-> 0]

InitDb ==
    /\ IdleFetch
    /\ IdleConc
    /\ IdleRate
    /\ IdleDedup
    /\ IdleCat
    /\ IdleProc
    /\ IdlePipe
    /\ IdleIng
    /\ IdleImage
    /\ connection = "none"
    /\ committed \in {{}, {StoredRow}}
    /\ table = committed
    /\ n_inserts = 0
    /\ last_insert = <<>>

\* How a call that runs a statement may go.  The connection is made when
\* there is none ('if not self.connection: self.connect()'), and the
\* statement is executed; connecting or the statement may fail; in a
\* transaction that a statement aborted, and on a connection that was
\* closed (close() keeps self.connection), every statement fails.
StatementOutcomes(conn) ==
    CASE conn = "none" -> {"ok", "connect_error", "statement_error"}
      [] conn = "open" -> {"ok", "statement_error"}
      [] OTHER -> {"statement_error"}

\* The connection after a call that went as `outcome`.
ConnectionAfter(conn, outcome) ==
    CASE outcome = "ok" -> "open"
      [] outcome = "connect_error" -> "none"
      [] conn = "closed" -> "closed"
      [] OTHER -> "failed"

\* PostgreSQLConnection.connect: a new connection, which sees the committed
\* rows; what a connection it replaces had not committed is gone.  When
\* psycopg2.connect raises, self.connection is as it was.
Connect ==
    /\ connection # "idle"
    /\ \E outcome \in {"ok", "connect_error"} :
          IF outcome = "ok"
          THEN /\ connection' = "open"
               /\ table' = committed
          ELSE UNCHANGED <<connection, table>>
    /\ UNCHANGED <<committed, n_inserts, last_insert>>
    /\ UNCHANGED notDb

\* PostgreSQLConnection.execute_query with a SELECT, as save_to_database,
\* get_articles_by_category and get_all_articles call it: no commit.
ExecuteQuery ==
    /\ connection # "idle"
    /\ \E outcome \in StatementOutcomes(connection) :
          connection' = ConnectionAfter(connection, outcome)
    /\ UNCHANGED <<table, committed, n_inserts, last_insert>>
    /\ UNCHANGED notDb

\* UPDATE articles SET title = %s WHERE url = %s
UpdateTitle(rows, url, new_title) ==
    {IF r.url = url THEN [r EXCEPT !.title = new_title] ELSE r : r \in rows}

\* PostgreSQLConnection.execute_update: the statement is executed and the
\* transaction committed.
ExecuteUpdate ==
    /\ connection # "idle"
    /\ \E url \in {"u1", "u2"}, new_title \in {"t1", "t2"},
          outcome \in StatementOutcomes(connection) :
          /\ connection' = ConnectionAfter(connection, outcome)
          /\ IF outcome = "ok"
             THEN /\ table' = UpdateTitle(table, url, new_title)
                  /\ committed' = table'
             ELSE UNCHANGED <<table, committed>>
    /\ UNCHANGED <<n_inserts, last_insert>>
    /\ UNCHANGED notDb

\* PostgreSQLConnection.execute_insert, given the statement and the
\* parameters of insert_article: the statement is executed and the
\* transaction committed.
ExecuteInsert ==
    /\ connection # "idle"
    /\ \E article \in DbArticles,
          outcome \in StatementOutcomes(connection) :
          /\ connection' = ConnectionAfter(connection, outcome)
          /\ IF outcome = "ok"
             THEN /\ table' = Upsert(table, article)
                  /\ committed' = table'
             ELSE UNCHANGED <<table, committed>>
    /\ UNCHANGED <<n_inserts, last_insert>>
    /\ UNCHANGED notDb

\* PostgreSQLConnection.insert_article: the statement is executed with
\* execute_query, which does not commit.
InsertArticle ==
    /\ connection # "idle"
    /\ n_inserts < MaxInserts
    /\ \E article \in DbArticles,
          outcome \in StatementOutcomes(connection) :
          /\ connection' = ConnectionAfter(connection, outcome)
          /\ IF outcome = "ok"
             THEN /\ table' = Upsert(table, article)
                  /\ last_insert' =
                        [article |-> article, raised |-> FALSE,
                         id |-> ReturnedId(table', article)]
             ELSE /\ table' = table
                  /\ last_insert' =
                        [article |-> article, raised |-> TRUE, id |-> 0]
    /\ n_inserts' = n_inserts + 1
    /\ UNCHANGED committed
    /\ UNCHANGED notDb

\* PostgreSQLConnection.close: the connection, when there is one, is
\* closed; what was not committed is gone.
CloseConnection ==
    /\ connection # "idle"
    /\ connection' = IF connection = "none" THEN "none" ELSE "closed"
    /\ table' = committed
    /\ UNCHANGED <<committed, n_inserts, last_insert>>
    /\ UNCHANGED notDb

NextDb ==
    \/ Connect
    \/ ExecuteQuery
    \/ ExecuteUpdate
    \/ ExecuteInsert
    \/ InsertArticle
    \/ CloseConnection

SpecDb == InitDb /\ [][NextDb]_vars

(***************************************************************************)
(* The asset automator: ImageUploader.upload_image and                     *)
(* process_article_images.  A url is a sequence of its parts, the empty    *)
(* url the empty sequence.                                                 *)
(***************************************************************************)
ImageUrl1 == <<"https://example.com/image1", ".PNG">>
ImageUrl2 == <<"https://example.com/photo">>
ImageUrls == {ImageUrl1, ImageUrl2}

\* article_id: None or '', or an id.
ArticleIds == {<<>>, <<"a7">>}

ImageArticles ==
    {[title |-> "t1", image_url |-> ImageUrl1, external_id |-> <<"e1">>],
     [title |-> "t2", image_url |-> ImageUrl2],
     [title |-> "t3", image_url |-> <<>>],
     [title |-> "t4"],
     [title |-> "t5", image_url |-> ImageUrl1, id |-> <<"a7">>,
      external_id |-> <<"e1">>]}

\* ImageUploader._get_fallback_image: FALLBACK_IMAGE_URL of the
\* environment, or the placeholder when it is not set.
get_fallback_image ==
    CASE fallback_setting = "custom" -> <<"https://cdn.example.org/none.png">>
      [] fallback_setting = "empty" -> <<>>
      [] OTHER -> <<"https://via.placeholder.com/800x450?text=No+Image">>

\* ImageUploader._get_image_hash: the md5 digest of the url.
get_image_hash(url) ==
    <<(ImageUrl1 :> "md5-1" @@ ImageUrl2 :> "md5-2")[url]>>

\* str.lower, on the parts of the urls.
Lower(part) == IF part = ".PNG" THEN ".png" ELSE part

Extensions == <<".jpg", ".jpeg", ".png", ".gif", ".webp">>

\* What Image.open reads of the data that _optimize_image returned: the
\* JPEG it made of an image ("image"); the original data when it failed,
\* which is a PNG or a GIF that Pillow opens but cannot write as JPEG
\* ("png", "gif"), or no image that Pillow can open ("opaque").
ImageFormat(data) ==
    CASE data = "image" -> ".jpeg"
      [] data = "png" -> ".png"
      [] data = "gif" -> ".gif"
      [] OTHER -> ""

\* ImageUploader._get_extension: the first known extension in the url, or
\* the format of the data, or '.jpg'.
get_extension(url, data) ==
    LET found == {i \in DOMAIN Extensions :
                     \E j \in DOMAIN url : Lower(url[j]) = Extensions[i]}
    IN  IF found # {}
        THEN Extensions[CHOOSE i \in found : \A k \in found : i <= k]
        ELSE IF ImageFormat(data) # "" THEN ImageFormat(data) ELSE ".jpg"

\* filename = f"{article_id or self._get_image_hash(url)}{ext}"
Filename(url, article_id, data) ==
    (IF article_id # <<>> THEN article_id ELSE get_image_hash(url))
       \o <<get_extension(url, data)>>

\* What the provider's upload method returns: _upload_to_s3,
\* _upload_to_cloudinary (the response's secure_url, '' when the response
\* has none), _upload_locally.
UploadedUrl(filename, response) ==
    CASE provider = "s3" ->
            <<"https://bucket.s3.region.amazonaws.com/news-images/yyyy/mm/">>
               \o filename
      [] provider = "cloudinary" ->
            IF response = "no_secure_url" THEN <<>>
            ELSE <<"https://res.cloudinary.com/israel-news/news/">>
                    \o SubSeq(filename, 1, Len(filename) - 1)
      [] OTHER -> <<"/uploads/yyyy/mm/">> \o filename

\* The responses of a download and of an upload.
Downloads == {"none", "image", "png", "gif", "opaque"}
Uploads == {"raised", "stored", "no_secure_url"}

\* url in self.url_cache
InCache(url, cache) == url \in DOMAIN cache

\* ImageUploader.upload_image: the url returned, the cache after the call,
\* and the way the call went.
upload_image(url, article_id, cache, download, upload) ==
    IF url = <<>>
    THEN [result |-> get_fallback_image, cache |-> cache,
          outcome |-> "empty_url"]
    ELSE IF InCache(url, cache)
    THEN [result |-> cache[url], cache |-> cache, outcome |-> "cached"]
    ELSE IF download = "none"
    THEN [result |-> get_fallback_image, cache |-> cache,
          outcome |-> "download_failed"]
    ELSE IF upload = "raised"
    THEN [result |-> get_fallback_image, cache |-> cache,
          outcome |-> "upload_failed"]
    ELSE LET hosted_url ==
                UploadedUrl(Filename(url, article_id, download), upload)
         IN  [result |-> hosted_url, cache |-> Set(cache, url, hosted_url),
              outcome |-> "hosted"]

\* The lists of at most n articles.
ImageLists(n) ==
    UNION {[1..k -> ImageArticles] : k \in 0..n}

InitImage ==
    /\ IdleFetch
    /\ IdleConc
    /\ IdleRate
    /\ IdleDedup
    /\ IdleCat
    /\ IdleProc
    /\ IdlePipe
    /\ IdleIng
    /\ IdleDb
    /\ provider \in {"s3", "cloudinary", "local"}
    /\ fallback_setting \in {"unset", "custom", "empty"}
    /\ url_cache = <<>>
    /\ image_articles = <<>>
    /\ images = <<>>
    /\ image_i = 0
    /\ image_pc = "idle"
    /\ n_uploads = 0
    /\ last_upload = <<>>

\* A call of upload_image from outside the loop, as batch_upload makes.
UploadImage ==
    /\ image_pc # "looping"
    /\ n_uploads < MaxUploads
    /\ \E url \in ImageUrls \cup {<<>>}, article_id \in ArticleIds,
          download \in Downloads, upload \in Uploads :
          /\ upload = "no_secure_url" => provider = "cloudinary"
          /\ LET call_ == upload_image(url, article_id, url_cache,
                                       download, upload)
             IN  /\ url_cache' = call_.cache
                 /\ last_upload' =
                       [url |-> url, article_id |-> article_id,
                        outcome |-> call_.outcome, result |-> call_.result]
    /\ n_uploads' = n_uploads + 1
    /\ UNCHANGED <<provider, fallback_setting, image_articles, images,
                   image_i, image_pc>>
    /\ UNCHANGED notImage

\* process_article_images is called with a list.
ProcessArticleImages ==
    /\ image_pc = "idle"
    /\ \E list \in ImageLists(MaxImages) :
          /\ image_articles' = list
          /\ images' = list
    /\ image_i' = 1
    /\ image_pc' = "looping"
    /\ UNCHANGED <<provider, fallback_setting, url_cache, n_uploads,
                   last_upload>>
    /\ UNCHANGED notImage

\* One turn of the loop of process_article_images.
ProcessArticleImage ==
    /\ image_pc = "looping"
    /\ image_i <= Len(images)
    /\ LET article      == images[image_i]
           original_url == Get(article, "image_url", <<>>)
           id           == Get(article, "id", <<>>)
           article_id   == IF id # <<>> THEN id
                           ELSE Get(article, "external_id", <<>>)
       IN  IF original_url # <<>>
           THEN \E download \in Downloads, upload \in Uploads :
                   /\ upload = "no_secure_url" => provider = "cloudinary"
                   /\ LET call_ == upload_image(original_url, article_id,
                                                url_cache, download, upload)
                      IN  /\ images' = [images EXCEPT ![image_i] =
                                 Set(article, "image_url", call_.result)]
                          /\ url_cache' = call_.cache
                          /\ last_upload' =
                                [url |-> original_url,
                                 article_id |-> article_id,
                                 outcome |-> call_.outcome,
                                 result |-> call_.result]
           ELSE /\ images' = [images EXCEPT ![image_i] =
                       Set(article, "image_url", get_fallback_image)]
                /\ UNCHANGED <<url_cache, last_upload>>
    /\ image_i' = image_i + 1
    /\ UNCHANGED <<provider, fallback_setting, image_articles, image_pc,
                   n_uploads>>
    /\ UNCHANGED notImage

\* process_article_images returns the list.
ReturnImages ==
    /\ image_pc = "looping"
    /\ image_i > Len(images)
    /\ image_pc' = "returned"
    /\ UNCHANGED <<provider, fallback_setting, url_cache, image_articles,
                   images, image_i, n_uploads, last_upload>>
    /\ UNCHANGED notImage

NextImage ==
    \/ UploadImage
    \/ ProcessArticleImages
    \/ ProcessArticleImage
    \/ ReturnImages

SpecImage == InitImage /\ [][NextImage]_vars

(***************************************************************************)
(* The rate limiter's claims, checked under SpecRate.                      *)
(***************************************************************************)
\* C1: the number of acquisitions that return within any 24-hour interval
\* never exceeds max_daily_requests.
C1_DailyQuota == Len(returns) <= max_daily_requests

\* C2: of two consecutive _rate_limit calls, the second returns at least
\* request_delay after the first returned, on every path through the call.
C2_Spacing ==
    [][(RateLimit /\ last_return >= 0)
          => clock' - last_return >= request_delay]_vars

\* A second call that had to sleep for the rest of the delay has returned.
C2_Witness == Len(returns) >= 2 /\ call.delay_sleep > 0

\* C3: a call made with the count at the maximum inside the window returns
\* no earlier than daily_reset_time + 24 hours, with the count reset to 1;
\* a call made with the count below the maximum is not suspended for the
\* quota.
C3_QuotaWait ==
    [][RateLimit =>
          /\ (/\ daily_request_count = max_daily_requests
              /\ ~WindowElapsed(clock, daily_reset_time))
                 => /\ clock' >= daily_reset_time + DayTicks
                    /\ daily_request_count' = 1
          /\ daily_request_count < max_daily_requests
                 => ~call'.quota_wait]_vars

(***************************************************************************)
(* The deduplication's claims, checked under SpecDedup.                    *)
(***************************************************************************)
\* The identity key the claims speak of: the url, else the external_id.
IdentityKey(article) ==
    IF article.url # "" THEN article.url ELSE article.external_id

\* The key the code deduplicates by.
UrlKey(article) == article.url

\* The positions of `list` holding the first occurrence of a non-empty key.
FirstOccurrences(list, Key(_)) ==
    {i \in DOMAIN list :
        /\ Key(list[i]) # ""
        /\ \A j \in 1 .. (i - 1) : Key(list[j]) # Key(list[i])}

\* The subsequence of `list` at the positions I, from position i on.
RECURSIVE SubsequenceAt(_, _, _)
SubsequenceAt(list, I, i) ==
    IF i > Len(list) THEN <<>>
    ELSE (IF i \in I THEN <<list[i]>> ELSE <<>>) \o SubsequenceAt(list, I, i + 1)

\* Every non-empty key of the input is the key of exactly one kept article.
KeptOncePerKey(Key(_)) ==
    \A i \in DOMAIN articles :
        Key(articles[i]) # "" =>
            Cardinality({j \in DOMAIN unique_articles :
                            Key(unique_articles[j]) = Key(articles[i])}) = 1

\* No two kept articles share a key and none has an empty key.
KeysUniqueAndNonEmpty(Key(_)) ==
    /\ \A j, k \in DOMAIN unique_articles :
          Key(unique_articles[j]) = Key(unique_articles[k]) => j = k
    /\ \A j \in DOMAIN unique_articles : Key(unique_articles[j]) # ""

\* What the loop does, read with the url as the only key: the result is the
\* subsequence of the first occurrences of each non-empty url, each non-empty
\* url of the input is kept exactly once, and the kept articles have distinct
\* non-empty urls (hence distinct non-empty identity keys).
DedupByUrl ==
    dedup_pc = "deduped" =>
        /\ unique_articles =
              SubsequenceAt(articles, FirstOccurrences(articles, UrlKey), 1)
        /\ KeptOncePerKey(UrlKey)
        /\ KeysUniqueAndNonEmpty(UrlKey)
        /\ KeysUniqueAndNonEmpty(IdentityKey)

\* C4: deduplication identifies an article by its url when the url is
\* non-empty and by its external_id otherwise: an article with an empty url
\* and a non-empty external_id is kept, once per external_id, and an article
\* is dropped for lack of identity only when both its url and its
\* external_id are empty.
C4_KeptByExternalId ==
    dedup_pc = "deduped" =>
        /\ KeptOncePerKey(IdentityKey)
        /\ \A i \in DOMAIN articles :
              (articles[i].url = "" /\ articles[i].external_id # "")
                  => \E j \in DOMAIN unique_articles :
                        /\ unique_articles[j].url = ""
                        /\ unique_articles[j].external_id = articles[i].external_id
        /\ \A i \in DOMAIN articles :
              (\A j \in DOMAIN unique_articles :
                    IdentityKey(unique_articles[j]) # IdentityKey(articles[i]))
                  => (articles[i].url = "" /\ articles[i].external_id = "")

\* C5: for every input list of one sector, the deduplicated list is the
\* subsequence of the input made of the first occurrence of each distinct
\* non-empty identity key (url, else external_id), in first-seen order: no
\* two articles of the result share a key, none has an empty key, and every
\* non-empty key of the input appears exactly once.
C5_FirstOfEachIdentityKey ==
    dedup_pc = "deduped" =>
        /\ unique_articles =
              SubsequenceAt(articles, FirstOccurrences(articles, IdentityKey), 1)
        /\ KeysUniqueAndNonEmpty(IdentityKey)
        /\ KeptOncePerKey(IdentityKey)

\* C6: deduplicating the deduplication's result returns it unchanged.
C6_Idempotent == dedup_pc = "again" => deduped_again = unique_articles

\* A list with a duplicate and a second url was deduplicated twice.
C6_Witness ==
    /\ dedup_pc = "again"
    /\ Len(unique_articles) = 2
    /\ Len(articles) = 3

(***************************************************************************)
(* The categorization's claim, checked under SpecCat.                      *)
(***************************************************************************)
\* The sectors, by position in the declared order, with a keyword in `text`.
MatchingSectors(text) ==
    {i \in DOMAIN sector_keywords :
        \E k \in DOMAIN sector_keywords[i].keywords :
            Contains(text, sector_keywords[i].keywords[k])}

\* C7: categorize_article returns the first sector, in the declared order
\* farming, tech, politics, hospitality, with a keyword occurring in the
\* lower-cased text "title description", and general exactly when no sector
\* has one.
C7_FirstMatchWins ==
    cat_pc = "returned" =>
        LET matching == MatchingSectors(CategorizeText(title, description))
        IN  /\ [i \in DOMAIN sector_keywords |-> sector_keywords[i].sector]
                  = <<"farming", "tech", "politics", "hospitality">>
            /\ (category = "general") <=> (matching = {})
            /\ matching # {} =>
                  \E i \in matching :
                      /\ category = sector_keywords[i].sector
                      /\ \A j \in matching : i <= j

\* A text with keywords of two sectors (tech in upper case, and
\* hospitality) was categorized as the first of them.
C7_Witness ==
    /\ cat_pc = "returned"
    /\ MatchingSectors(CategorizeText(title, description)) = {2, 4}
    /\ Contains(Format(title), <<"T", "e", "c", "h">>)
    /\ category = "tech"

\* The sectors declared up to the i-th.
SectorsUpTo(i) == {sector_keywords[j].sector : j \in 1 .. i}

\* C36: every configured keyword selects its sector.  For each sector and
\* each keyword of its list, categorize_article(keyword, '') returns that
\* sector or one declared before it, never general: for the call that was
\* made, when its title is a keyword and its description is empty, and for
\* every keyword of the configuration.
C36_EveryKeywordSelectsItsSector ==
    cat_pc = "returned" =>
        \A i \in DOMAIN sector_keywords :
            \A k \in DOMAIN sector_keywords[i].keywords :
                LET keyword == sector_keywords[i].keywords[k]
                IN  /\ (title = keyword /\ description = <<>>)
                           => category \in SectorsUpTo(i)
                    /\ categorize_article(keyword, <<>>) \in SectorsUpTo(i)

(***************************************************************************)
(* The enrichment's claims, checked under SpecProc.                        *)
(***************************************************************************)
\* C8: every article process_article / process_batch produces has a
\* category among farming, tech, politics, hospitality and general.
C8_CategoryIsSector ==
    \A i \in DOMAIN processed :
        processed[i].category \in
            {"farming", "tech", "politics", "hospitality", "general"}

\* A batch was processed in which one article matched no keyword and had
\* its summarization fail, and another matched a sector.
C8_Witness ==
    /\ batch_i > Len(batch)
    /\ \E i, j \in DOMAIN processed :
          /\ processed[i].category = "general"
          /\ processed[i].summary = <<>>
          /\ processed[j].category = "tech"

\* C9: two processed articles with the same non-empty url have the same id,
\* whatever their other fields, their summaries and their times of
\* processing, and that id is not None.
C9_IdFromUrlAlone ==
    \A i, j \in DOMAIN processed :
        (processed[i].url = processed[j].url /\ processed[i].url # "")
            => /\ processed[i].id = processed[j].id
               /\ processed[i].id # NoneValue

\* Two articles with the same url and different titles were processed at
\* different times with different summaries.
C9_Witness ==
    \E i, j \in DOMAIN processed :
        /\ processed[i].url = processed[j].url
        /\ processed[i].url # ""
        /\ processed[i].title # processed[j].title
        /\ processed[i].summary # processed[j].summary
        /\ processed[i].processed_at # processed[j].processed_at

(***************************************************************************)
(* The orchestrator's claims, under SpecPipe.                              *)
(***************************************************************************)
StageRank(stage) ==
    CASE stage = "INGEST" -> 1
      [] stage = "ENRICH" -> 2
      [] stage = "RESOLVE_ASSETS" -> 3
      [] stage = "PERSIST" -> 4

\* C10: in every run of run_full_pipeline the stages occur in the order
\* INGEST, ENRICH, RESOLVE_ASSETS, PERSIST and never overlap: a fetch is made
\* only while no enrichment, asset or upsert call has been made, an
\* enrichment call only while no asset or upsert call has been made, and the
\* asset call only while no upsert has been made; a stage once left is never
\* run again.
C10_StagesInOrder ==
    [][ /\ calls'.ingest > calls.ingest =>
              calls.enrich = 0 /\ calls.assets = 0 /\ calls.persist = 0
        /\ calls'.enrich > calls.enrich =>
              /\ calls.assets = 0 /\ calls.persist = 0
              /\ ingestor => calls.ingest = Len(categories)
        /\ calls'.assets > calls.assets => calls.persist = 0
        /\ calls'.persist > calls.persist =>
              (uploader => calls.assets = 1)
        /\ \A i, j \in DOMAIN stage_log' :
              i < j => StageRank(stage_log'[i]) < StageRank(stage_log'[j])
      ]_vars

\* A run that made two fetches, two enrichment calls, the asset call and
\* two upserts, and has returned.
C10_Witness ==
    /\ pipe_pc = "done"
    /\ calls.ingest >= 2
    /\ calls.enrich >= 2
    /\ calls.assets >= 1
    /\ calls.persist >= 2
    /\ stage_log = <<"INGEST", "ENRICH", "RESOLVE_ASSETS", "PERSIST">>

\* C11: a stage whose collaborator is unavailable passes the articles
\* through: without a processor an enrichment turn appends the category's
\* raw articles as they are, without an uploader the asset stage returns the
\* list it was given, and without a database the persist stage makes no
\* database call, changes no article and reports 0 saved.
C11_SkippedStagePassesThrough ==
    [][ /\ (pipe_pc = "enrich" /\ ~processor /\ loop_i \in DOMAIN raw_articles)
              => all_processed' =
                     all_processed \o raw_articles[loop_i].articles
        /\ (pipe_pc = "assets" /\ ~uploader)
              => /\ final_articles' = all_processed
                 /\ calls' = calls
        /\ (pipe_pc = "persist" /\ ~db)
              => /\ final_articles' = final_articles
                 /\ calls' = calls
                 /\ save => results'.saved_articles = 0
      ]_vars

\* A run with articles, asked to save, without processor, uploader and
\* database, has returned.
C11_Witness ==
    /\ pipe_pc = "done"
    /\ ~processor /\ ~uploader /\ ~db /\ save
    /\ Len(final_articles) >= 2
    /\ final_articles[1] = Set(ApiArticle1, "sector", "tech")
    /\ results.saved_articles = 0

\* C12: a run for the category tech, asked to save, that ingested at least
\* one article and whose every database call failed, returns with
\* saved_articles = 0 and a non-empty errors list.
C12_DegradedRunRecordsErrors ==
    ( /\ pipe_pc = "done"
      /\ categories = <<"tech">>
      /\ save /\ db
      /\ results.total_articles >= 1
      /\ save_log # <<>>
      /\ \A i \in DOMAIN save_log : save_log[i] = "query_raised" )
        => /\ results.ended
           /\ results.saved_articles = 0
           /\ results.errors # <<>>

\* C13: whatever collaborators are unavailable and whatever calls fail, the
\* run returns its record, and the record's errors list has an entry for
\* each failure that was caught.
C13_EveryFailureRecorded ==
    pipe_pc = "done" =>
        /\ results.ended
        /\ Len(results.errors) >= calls.failed

\* C15: a run whose ingestor lacks its credential is aborted before the
\* ingest stage: no stage method is called and the run does not complete
\* with a record.  (NewsScraper() raises ValueError when NEWSAPI_KEY is
\* missing and _init_components then leaves self.ingestor None: the runs
\* without the credential are runs without an ingestor.)
C15_MissingCredentialAborts ==
    ~ingestor => /\ stage_log = <<>>
                 /\ pipe_pc # "done"
                 /\ ~results.ended

\* C18: in save_to_database an article whose upsert failed is not counted
\* and the articles after it are still attempted: every article of the list
\* gets its turn, and the count returned is the number of articles whose
\* upsert succeeded, wherever the failures are in the list.
C18_SavedCountsSuccesses ==
    /\ saved = Cardinality(Positions(save_log, "saved"))
    /\ (pipe_pc = "done" /\ save /\ db) =>
          /\ Len(save_log) = Len(final_articles)
          /\ results.saved_articles = Cardinality(Positions(save_log, "saved"))

\* A run saved four articles: the first upsert failed, the second
\* succeeded, the third failed and the fourth succeeded.
C18_Witness ==
    /\ pipe_pc = "done"
    /\ save_log = <<"insert_raised", "saved", "query_raised", "saved">>
    /\ results.saved_articles = 2

\* C24: a collaborator that failed to initialize is never called in the
\* run, the run returns its record all the same, and the record tells that
\* a collaborator was unavailable: its errors list, the one place of the
\* record for it, is not empty.
C24_UnavailableCollaboratorRecorded ==
    /\ ~ingestor => calls.ingest = 0
    /\ ~processor => calls.enrich = 0
    /\ ~uploader => calls.assets = 0
    /\ ~db => calls.persist = 0
    /\ pipe_pc = "done" =>
          /\ results.ended
          /\ (~ingestor \/ ~processor \/ ~uploader \/ ~db)
                => results.errors # <<>>

\* The steps of run_full_pipeline, in order.
AllSteps == <<"INGEST", "ENRICH", "RESOLVE_ASSETS", "PERSIST">>

\* C25 as claimed: every run_full_pipeline call whose collaborator calls
\* return goes through all four stages, once each and in order, and
\* returns its record with end_time set; nothing happens after the return.
C25_AllFourStagesOnce ==
    /\ <>(pipe_pc = "done" /\ results.ended)
    /\ [](pipe_pc = "done" => step_log = AllSteps)
    /\ [][pipe_pc # "done"]_vars

\* C25, amended: every run_full_pipeline call whose collaborator calls
\* return goes, once each and in order, through INGEST, ENRICH,
\* RESOLVE_ASSETS and, when it is asked to save, PERSIST, and returns its
\* record with end_time set; a step once left is not entered again and
\* nothing happens after the return.
C25_RunsOnceToCompletion ==
    /\ <>(pipe_pc = "done" /\ results.ended)
    /\ [](step_log = SubSeq(AllSteps, 1, Len(step_log)))
    /\ [](pipe_pc = "done" =>
             step_log = (IF save THEN AllSteps ELSE SubSeq(AllSteps, 1, 3)))
    /\ [][pipe_pc # "done"]_vars

\* A run for two categories that was not asked to save has returned after
\* its three steps.
C25_Witness ==
    /\ pipe_pc = "done"
    /\ results.ended
    /\ ~save
    /\ Len(categories) = 2
    /\ step_log = <<"INGEST", "ENRICH", "RESOLVE_ASSETS">>
    /\ calls.persist = 0

\* The requested categories whose entry in the record lacks `key`.
Lacking(key) ==
    {i \in DOMAIN categories :
        key \notin DOMAIN Get(results.categories, categories[i], <<>>)}

\* C30: in the record run_full_pipeline returns, the entry of every
\* requested category carries both raw_count and processed_count, also the
\* categories whose ingest returned no article.
C30_EveryCategoryHasBothCounts ==
    pipe_pc = "done" =>
        Lacking("raw_count") = {} /\ Lacking("processed_count") = {}

\* The sum of the `key` values that the record's category entries carry.
RECURSIVE SumOf(_, _)
SumOf(key, names) ==
    IF names = {} THEN 0
    ELSE LET name == CHOOSE n \in names : TRUE
         IN  Get(results.categories[name], key, 0)
                + SumOf(key, names \ {name})

\* C32: in the record run_full_pipeline returns, total_articles is the sum
\* of the categories' raw_count, processed_articles the sum of the
\* processed_count values that are there, and saved_articles <=
\* processed_articles <= total_articles; a run with save = False has
\* saved_articles 0 and calls the database not once.
C32_TotalsAreSums ==
    pipe_pc = "done" =>
        /\ results.total_articles =
              SumOf("raw_count", DOMAIN results.categories)
        /\ results.processed_articles =
              SumOf("processed_count", DOMAIN results.categories)
        /\ results.saved_articles <= results.processed_articles
        /\ results.processed_articles <= results.total_articles
        /\ ~save => /\ results.saved_articles = 0
                    /\ calls.persist = 0
                    /\ save_log = <<>>

\* A run for two categories, one of them without articles: one of the
\* two articles was saved.
C32_Witness ==
    /\ pipe_pc = "done"
    /\ save
    /\ Len(categories) = 2
    /\ results.total_articles = 2
    /\ results.processed_articles = 2
    /\ results.saved_articles = 1
    /\ \E c \in DOMAIN results.categories :
          "processed_count" \notin DOMAIN results.categories[c]

\* C34: when the enrichment is skipped (no processor) and there is an
\* uploader, an article that came from the provider with an image
\* (urlToImage) and a sector tag is, at the persist stage, an article with
\* a resolved image, not the fallback, and with its sector as the category
\* that is stored.
C34_SkippedEnrichmentKeepsImageAndSector ==
    (pipe_pc \in {"persist", "done"} /\ ~processor /\ uploader) =>
        \A i \in DOMAIN final_articles :
            LET article == final_articles[i]
            IN  (/\ Get(article, "urlToImage", "") # ""
                 /\ "sector" \in DOMAIN article)
                    => /\ Get(article, "image_url", "") # FallbackImage
                       /\ CategoryOf(article) = article.sector

(***************************************************************************)
(* More claims about the enrichment, under SpecProc.                       *)
(***************************************************************************)
\* C14: when every call of the summarizer succeeded, process_batch returns
\* as many articles as it was given, whatever the shape of their source
\* field (the query API's dict, a feed's or a page's string, or none).
C14_EnrichmentDropsNothing ==
    ( /\ batch_i > Len(batch)
      /\ \A i \in DOMAIN summary_log : summary_log[i].success )
        => Len(processed) = Len(batch)

\* The articles process_batch emitted for the turn `i` of its loop.
EmittedAt(i) == {j \in DOMAIN processed : processed[j].processed_at = i}

\* C21: a failed model call gives empty bullets, 'neutral' and 'medium',
\* and the article of a turn whose summarization failed is emitted by
\* process_batch, once, with those defaults.  (No call of the model raises
\* out of summarize_article.)
C21_FailedSummaryStillEmitted ==
    \A i \in DOMAIN summary_log :
       ~summary_log[i].success =>
          /\ summary_log[i].bullets = <<>>
          /\ summary_log[i].sentiment = "neutral"
          /\ summary_log[i].importance = "medium"
          /\ Cardinality(EmittedAt(i)) = 1
          /\ \A j \in EmittedAt(i) :
                /\ processed[j].url = batch[i].url
                /\ processed[j].summary = <<>>
                /\ processed[j].sentiment = "neutral"
                /\ processed[j].importance = "medium"

(***************************************************************************)
(* The sector fetches' claims, under SpecIng.                              *)
(***************************************************************************)
\* The positions of the log with a fetch of `kind` for `sector`.
FetchesOf(kind, sector) ==
    {i \in DOMAIN fetch_log :
        fetch_log[i].kind = kind /\ fetch_log[i].sector = sector}

\* C16: an ingest of a sector makes query fetches for at most the first 2 of
\* the sector's search queries, in fetch_all_sectors and in
\* fetch_by_category alike, and fetch_all_sectors makes exactly one general
\* fetch, whose articles are tagged general.
C16_AtMostTwoQueriesPerSector ==
    ing_pc = "returned" =>
        /\ \A s \in DOMAIN all_articles :
              /\ Cardinality(FetchesOf("query", s)) <= 2
              /\ \A i \in FetchesOf("query", s) : fetch_log[i].n <= 2
        /\ ing_op.name = "fetch_all_sectors" =>
              /\ Cardinality(FetchesOf("country", "general")) = 1
              /\ \A i \in DOMAIN fetch_log :
                    fetch_log[i].kind = "country" =>
                        fetch_log[i].sector = "general"
              /\ \A i \in DOMAIN all_articles["general"] :
                    all_articles["general"][i].sector = "general"

\* The exceptions of a fetch that are network or parse errors.
NetworkOrParseErrors == {"RequestException", "JSONDecodeError", "IndexError"}

\* The articles, tagged, of the fetches for `sector` that met no error.
SucceededArticles(sector) ==
    Flatten([i \in DOMAIN fetch_log |->
                IF fetch_log[i].sector = sector /\ fetch_log[i].error = ""
                THEN Tagged(fetch_log[i].articles, sector)
                ELSE <<>>])

\* C17: a fetch that met a network or parse error returned an empty list
\* and raised nothing, the fetches after it were still made, and each
\* sector's final list is the deduplication of the articles of the fetches
\* that met no error.
C17_FailedFetchIsEmpty ==
    /\ \A i \in DOMAIN fetch_log :
          fetch_log[i].error \in NetworkOrParseErrors =>
              /\ fetch_log[i].articles = <<>>
              /\ ~(ing_pc = "raised" /\ i = Len(fetch_log))
    /\ ing_pc = "returned" =>
          /\ Len(fetch_log) = Len(plan)
          /\ \A s \in DOMAIN ing_result :
                ing_result[s] = Deduplicate(SucceededArticles(s))

(***************************************************************************)
(* More claims about the rate limiter, under SpecRate.                     *)
(***************************************************************************)
\* C26: a _rate_limit call made 24 hours or more after daily_reset_time
\* sets the count to 0 and the window's start to the time of the call before
\* it tests the quota: it does not wait for the quota and leaves the count
\* at 1.  A call made earlier leaves the window's start as it is unless it
\* waits for the quota.
C26_WindowReset ==
    [][ last_return' # last_return =>
          IF clock - daily_reset_time >= DayTicks
          THEN /\ call'.window_reset
               /\ ~call'.quota_wait
               /\ daily_request_count' = 1
               /\ daily_reset_time' = clock
          ELSE /\ ~call'.window_reset
               /\ ~call'.quota_wait => daily_reset_time' = daily_reset_time
      ]_vars

\* A call made 24 hours after a start time has reset the window and
\* returned with the count at 1.
C26_Witness ==
    /\ call.window_reset
    /\ ~call.quota_wait
    /\ daily_request_count = 1
    /\ Len(returns) = 1
    /\ \E s \in StartTimes : daily_reset_time = s + DayTicks

\* C27: a _rate_limit call that returns leaves the count one above what it
\* was after the call's reset, if it made one, and last_request_time at the
\* time of the return; so after a return the count is between 1 and
\* max_daily_requests, and last_request_time never decreases.
C27_CountedOnceAndStamped ==
    [][ /\ last_return' # last_return =>
              /\ daily_request_count' =
                    (IF call'.window_reset \/ call'.quota_wait THEN 0
                     ELSE daily_request_count) + 1
              /\ last_request_time' = clock'
              /\ last_return' = clock'
              /\ 1 <= daily_request_count'
              /\ daily_request_count' <= max_daily_requests
        /\ last_request_time' >= last_request_time
      ]_vars

\* The third call of a window has returned: the count is at the quota and
\* last_request_time is the time of that return.
C27_Witness ==
    /\ daily_request_count = max_daily_requests
    /\ Len(returns) = max_daily_requests
    /\ last_request_time = last_return
    /\ last_request_time = clock
    /\ ~call.window_reset /\ ~call.quota_wait

(***************************************************************************)
(* The fetch operations' claims, under SpecFetch.                          *)
(***************************************************************************)
\* The quota state of the scraper.
QuotaState == <<daily_request_count, daily_reset_time, last_request_time>>

\* C28: the quota state (daily_request_count, daily_reset_time,
\* last_request_time) is changed only inside _rate_limit: every step that
\* changes one of the three is the _rate_limit call of a fetch operation;
\* the rest of the fetch operation (the request, the parsing, the return),
\* the deduplication and to_json_format leave all three as they are.
C28_QuotaChangedOnlyInRateLimit ==
    [][ QuotaState' # QuotaState =>
            /\ fetch_pc = "called"
            /\ fetch_pc' = "acquired"
            /\ call_acqs' = call_acqs + 1 ]_vars

\* Two fetch operations have run, the second returned three articles, which
\* were deduplicated to two and converted: the count is still the two
\* acquisitions.
C28_Witness ==
    /\ fetch_pc = "idle"
    /\ n_fetches = 2
    /\ daily_request_count = 2
    /\ fetch_ret.error = ""
    /\ scraped = <<NewsapiArticle2, NewsapiArticle1>>
    /\ formatted = to_json_format(scraped)

\* C29: every fetch operation makes exactly one _rate_limit call, before
\* its outbound request: a request is issued only by an operation that has
\* made one call, the one call made since the previous request, and an
\* operation that has returned or raised has made exactly one; the request
\* leaves daily_request_count incremented, also when it fails.
C29_OneAcquisitionBeforeEachRequest ==
    /\ [](/\ since_request <= 1
          /\ (fetch_pc = "idle" /\ n_fetches > 0) => call_acqs = 1)
    /\ [][ (fetch_pc = "acquired" /\ fetch_pc' # "acquired") =>
              /\ call_acqs = 1
              /\ since_request = 1
              /\ call_acqs' = 1
              /\ daily_request_count' = daily_request_count
              /\ daily_request_count >= 1 ]_vars

\* The second fetch operation's request failed: two acquisitions are
\* counted.
C29_Witness ==
    /\ fetch_pc = "idle"
    /\ n_fetches = 2
    /\ fetch_ret.error = "RequestException"
    /\ call_acqs = 1
    /\ since_request = 0
    /\ daily_request_count = 2

(***************************************************************************)
(* The rate limiter under concurrent callers, under SpecConc.              *)
(***************************************************************************)
\* C23: when several threads call _rate_limit on one NewsScraper, no
\* increment of daily_request_count is lost (the count is the number of
\* increments made since it was last set to 0), the count never exceeds
\* max_daily_requests, and no two calls return less than request_delay
\* apart.
C23_SafeUnderConcurrentCallers ==
    /\ daily_request_count = rl_incs
    /\ daily_request_count <= max_daily_requests
    /\ \A i \in 1 .. (Len(returns) - 1) :
          returns[i + 1] - returns[i] >= request_delay

(***************************************************************************)
(* The database's claims, under SpecDb.                                    *)
(***************************************************************************)
\* The columns the upsert's DO UPDATE leaves alone.
KeptColumns ==
    {"id", "external_id", "content", "url", "image_url", "published_at",
     "source", "category_id", "summary", "sentiment", "importance"}

\* C19: insert_article is an upsert keyed by url.  A call that returns, for
\* a url not stored, adds one row; for a url that is stored it leaves
\* exactly one row of that url, with the article's title and description
\* and the current time as update time, and every other column (summary,
\* category, image_url, sentiment, importance, ...) as it was.  The rows of
\* other urls are untouched.
C19_UpsertByUrl ==
    [][ (n_inserts' = n_inserts + 1 /\ ~last_insert'.raised) =>
          LET a   == last_insert'.article
              old == {r \in table : r.url = a.url}
              new == {r \in table' : r.url = a.url}
          IN  /\ Cardinality(new) = 1
              /\ {r \in table' : r.url # a.url} = {r \in table : r.url # a.url}
              /\ \A r \in new :
                    /\ r.title = a.title
                    /\ r.description = a.description
                    /\ r.updated_at = CurrentTimestamp
                    /\ last_insert'.id = r.id
              /\ old = {} =>
                    /\ Cardinality(table') = Cardinality(table) + 1
                    /\ \A r \in new :
                          /\ r.summary = JsonDumps(a.summary)
                          /\ r.category_id = a.category_id
                          /\ r.image_url = a.image_url
              /\ old # {} =>
                    /\ Cardinality(table') = Cardinality(table)
                    /\ \A r \in old : \A r2 \in new :
                          \A c \in KeptColumns : r2[c] = r[c]
      ]_vars

\* The stored row of u1 was upserted with an article of another title,
\* description, summary and category: the call returned the row's id, and
\* the row has the new title and update time and its old summary.
C19_Witness ==
    /\ n_inserts >= 1
    /\ last_insert.raised = FALSE
    /\ last_insert.id = 1
    /\ last_insert.article.title = "t2"
    /\ last_insert.article.summary = <<>>
    /\ \E r \in table :
          /\ r.url = "u1" /\ r.id = 1
          /\ r.title = "t2"
          /\ r.updated_at = CurrentTimestamp
          /\ r.summary = JsonDumps(<<"b1", "b2", "b3">>)
    /\ StoredRow \in committed

\* C33: an article counted as saved is durably stored: its upsert is
\* committed before the connection is closed, so once the connection is
\* closed the store holds a row of the url of the last article whose
\* insert_article returned.
C33_SavedIsDurable ==
    (connection = "closed" /\ n_inserts > 0 /\ ~last_insert.raised) =>
        \E r \in committed : r.url = last_insert.article.url

(***************************************************************************)
(* The asset automator's claims, under SpecImage.                          *)
(***************************************************************************)
\* The articles of a list without their image_url.
WithoutImageUrl(list) ==
    [i \in DOMAIN list |->
        [k \in DOMAIN list[i] \ {"image_url"} |-> list[i][k]]]

\* C20: upload_image returns the configured fallback url for an empty url,
\* a failed download and a failed upload, and process_article_images
\* returns the articles it was given, in their order, each with a
\* non-empty image_url.  (Every call of the model returns.)
C20_EveryArticleHasAnImage ==
    /\ last_upload # <<>> =>
          (last_upload.outcome
              \in {"empty_url", "download_failed", "upload_failed"}
             => last_upload.result = get_fallback_image)
    /\ image_pc = "returned" =>
          /\ Len(images) = Len(image_articles)
          /\ WithoutImageUrl(images) = WithoutImageUrl(image_articles)
          /\ \A i \in DOMAIN images :
                /\ "image_url" \in DOMAIN images[i]
                /\ images[i].image_url # <<>>

\* This step is a call of upload_image that got past the test of an empty
\* url; last_upload' tells how it went.
UploadCalled ==
    \/ n_uploads' = n_uploads + 1 /\ last_upload'.url # <<>>
    \/ /\ image_pc = "looping"
       /\ image_i' = image_i + 1
       /\ Get(images[image_i], "image_url", <<>>) # <<>>

\* The cache changes only in a call whose upload returned, by the entry
\* of that call, and never loses or changes an entry.
CacheWrittenBySuccessOnly ==
    /\ \A u \in DOMAIN url_cache :
          u \in DOMAIN url_cache' /\ url_cache'[u] = url_cache[u]
    /\ url_cache' # url_cache =>
          /\ UploadCalled
          /\ last_upload'.outcome = "hosted"
          /\ url_cache' = Set(url_cache, last_upload'.url, last_upload'.result)
    /\ (UploadCalled /\ last_upload'.outcome # "hosted") =>
          url_cache' = url_cache

\* A call for a url that is in the cache returns the cached url without a
\* download or an upload; a call for one that is not goes to the download.
CacheHitReturnsEntry ==
    UploadCalled =>
        IF InCache(last_upload'.url, url_cache)
        THEN /\ last_upload'.outcome = "cached"
             /\ last_upload'.result = url_cache[last_upload'.url]
        ELSE last_upload'.outcome
                \in {"download_failed", "upload_failed", "hosted"}

\* A hosted url: what an upload that stored the image answers with.
IsHostedUrl(url) == url # <<>> /\ url # get_fallback_image

\* C35: url_cache holds only the results of successful uploads.  A failed
\* download or upload adds no entry, so the url is attempted again by the
\* next call; no entry is the fallback url; every entry is a hosted url;
\* and once upload_image(u) succeeded every later upload_image(u) returns
\* that same url without a download or an upload, whatever the article_id.
C35_CacheHoldsOnlyHostedUrls ==
    /\ [](\A u \in DOMAIN url_cache : IsHostedUrl(url_cache[u]))
    /\ [][CacheWrittenBySuccessOnly /\ CacheHitReturnsEntry]_vars

\* The positions of a sector's accumulated list that deduplication keeps:
\* those of a non-empty url that no earlier article of the list has.
FirstOfUrl(list) ==
    {i \in DOMAIN list :
        /\ list[i].url # ""
        /\ \A k \in 1 .. (i - 1) : list[k].url # list[i].url}

\* The list a sector has accumulated: the articles of its fetches, tagged,
\* in the order of the fetches.
Accumulated(sector) ==
    Flatten([i \in DOMAIN fetch_log |->
                IF fetch_log[i].sector = sector
                THEN Tagged(fetch_log[i].articles, sector)
                ELSE <<>>])

\* C22: fetch_all_sectors deduplicates each sector's list on its own.  The
\* list returned for a sector is the sector's accumulated list without the
\* articles of an empty url and without those whose url an earlier article
\* of that same list has; so a url fetched under two sectors is in the
\* lists of both.  The lists returned are those all_articles then holds.
C22_DedupPerSector ==
    [][ ( /\ ing_op.name = "fetch_all_sectors"
          /\ ing_pc = "fetching"
          /\ ing_pc' = "returned" ) =>
           /\ all_articles' = ing_result'
           /\ \A s \in DOMAIN all_articles :
                 /\ ing_result'[s] =
                       SubsequenceAt(all_articles[s],
                                     FirstOfUrl(all_articles[s]), 1)
                 /\ \A i \in DOMAIN all_articles[s] :
                       all_articles[s][i].url # "" =>
                          \E j \in DOMAIN ing_result'[s] :
                             ing_result'[s][j].url = all_articles[s][i].url
      ]_vars

\* The url u1 was fetched twice under tech and also under farming and
\* general, with an article of no url: it is once in each of the three
\* lists returned.
C22_Witness ==
    /\ ing_pc = "returned"
    /\ ing_op.name = "fetch_all_sectors"
    /\ Len(Accumulated("tech")) > Len(ing_result["tech"]) + 1
    /\ \A s \in {"farming", "tech", "general"} :
          Cardinality({j \in DOMAIN ing_result[s] :
                          ing_result[s][j].url = "u1"}) = 1

\* C31: fetch_all_sectors returns a list for every sector the configuration
\* names, also for a sector that is not one of the five built-in names, and
\* a sector of another name does not make the call raise: it ends only with
\* the exception of a fetch.
C31_EveryConfiguredSectorHasAList ==
    ing_op.name = "fetch_all_sectors" =>
        /\ ing_pc = "returned" => DOMAIN feeds_config \subseteq DOMAIN ing_result
        /\ ing_pc = "raised" => fetch_log[Len(fetch_log)].error # ""

=============================================================================
